---- MODULE Spec2Model ----
(***************************************************************************)
(* Model of the bundle execution engine of the wallet migrator:            *)
(* EIP7702BundleManager (src/utils/eip7702-bundle.ts) driven by the token  *)
(* viewer (handleExecuteBundle and its effects), against a wallet whose    *)
(* active chain can change on its own between any two awaited requests.    *)
(* Every await of the source is a step of the model.                       *)
(***************************************************************************)
EXTENDS Integers, Sequences, FiniteSets, TLC

(* ---------------- bounds ---------------- *)
MaxInvocations == 2
MaxWalletSwitches == 1
MaxTokens == 2
MaxClicks == 3
MaxLoads == 3

(* ---------------- static tables ---------------- *)
Mainnet == 1
Sepolia == 11155111
Flow == 747
Chains == {Mainnet, Sepolia, Flow}

NoAddr == "undefined"
Owner == "0xOwner"
Recipient == "0xRecipient"
TokenA == "0xTokenA"
NftB == "0xNftB"

\* PECTRA_BUNDLE_CONTRACTS[chainId]
PECTRA_BUNDLE_CONTRACTS(c) ==
  IF c = Mainnet THEN "0x9eCc" ELSE IF c = Sepolia THEN "0xB249" ELSE NoAddr

PectraAddrs == {"0x9eCc", "0xB249"}

\* NETWORKS[chainId]: the viem chain object, identified by its id; 0 is undefined
NETWORKS(c) == IF c \in {Mainnet, Sepolia} THEN c ELSE 0

\* RPC_URLS[chainId] || RPC_URLS[11155111]: the chain the public client talks to
RpcChainFor(c) == IF c \in {Mainnet, Sepolia, Flow} THEN c ELSE Sepolia

(* ---------------- sub-operations as the compiler emits them ---------------- *)
SelTransfer == "0xa9059cbb"
SelTransferFrom == "0x23b872dd"

TxNative(amt) == [to |-> Recipient, data |-> <<>>, value |-> amt, gasLimit |-> 21000]
TxERC20(tok, amt) ==
  [to |-> tok, data |-> <<SelTransfer, Recipient, amt>>, value |-> 0, gasLimit |-> 90000]
TxERC721(tok, id) ==
  [to |-> tok, data |-> <<SelTransferFrom, Owner, Recipient, id>>, value |-> 0, gasLimit |-> 120000]

\* the compiled selections previewed: a selection of zero-balance assets alone
\* compiles to no sub-operation at all
Bundles ==
  { <<>>,
    <<TxERC20(TokenA, 1)>>,
    <<TxNative(1), TxERC20(TokenA, 2), TxERC721(NftB, 7)>> }

IsNativeTx(tx) == tx.data = <<>>
IsERC20Tx(tx) == Len(tx.data) > 0 /\ tx.data[1] = SelTransfer
IsERC721Tx(tx) == Len(tx.data) > 0 /\ tx.data[1] = SelTransferFrom

VARIABLES
  hasEthereum,     \* window.ethereum exists
  isAmbire,        \* window.ethereum.isAmbire
  walletChain,     \* the chain the wallet is on
  walletSwitches,  \* switches the wallet made on its own while an execution ran
  walletClient,    \* this.walletClient !== null
  currentChain,    \* this.currentChain?.id, 0 when null
  pubChain,        \* chain of the RPC endpoint behind this.publicClient, 0 when null
  targetChainId,   \* this.targetChainId, 0 when null
  ctorPending,     \* the constructor's initializeClients() has not answered yet
  bundle,          \* bundlePreview.transactions, <<>> while bundlePreview is null
  hasPreview,      \* bundlePreview !== null
  previewInfo,     \* what the support effect's check last returned
  pc, path, inv, idx,
  supportInfo, chainId,
  networkSwitched, \* what ensureCorrectNetwork returned: "unset", "true" or "false"
  allowance,       \* on chain: allowance(Owner, spender) of TokenA
  approved,        \* on chain: getApproved(7) of NftB
  lastRead,        \* value returned by the allowance / getApproved read
  submitted,       \* signing requests the wallet accepted in this invocation
  switchLog,       \* switch requests issued in this invocation
  reads,           \* sub-operations whose allowance was read in this invocation
  capChecked,      \* checkEIP7702Support ran in this invocation
  chainRead,       \* how the chain id read of the last checkEIP7702Support call ended
  receipts,        \* receipts[k]: how the wait for the receipt of submitted[k] ended
  txHashes,        \* local txHashes of executeBatchTransactions
  applied,         \* sub-operations whose transfer this invocation applied on chain
  result,          \* what the invocation delivered to its caller
  tokens,          \* prepareBundledTransactions: the tokens argument
  fromAddress,     \* its fromAddress argument
  toAddress,       \* its toAddress argument
  transactions,    \* its local transactions
  ti,              \* the token its for loop is at
  cpc,             \* where it is: "off", "start", "loop", "returned" or "thrown"
  thrown,          \* the Error it threw
  origin,          \* origin[k]: the token that transactions[k] was pushed for
  encoded,         \* encoded[k]: the arguments encodeFunctionData got for transactions[k]
  selected,        \* viewer: the places in its token list of the tokens ticked
  connectedAddress,    \* viewer: the address of the connected wallet
  destinationAddress,  \* viewer: the destination typed in
  bundlePreview,   \* viewer: the preview handlePreviewBundle stored, NoPreview for null
  showPreview,     \* viewer: the preview is on screen
  viewError,       \* viewer: the error it shows, "none" for null
  ppc,             \* where handlePreviewBundle is: "idle", "compile", "cost" or "store";
                   \* "execute" while handleExecuteBundle awaits execute
  estimateRequested,   \* the handlePreviewBundle call last begun asked for an estimate
  scamAnswer,      \* what the user answered to the scam warning of the handlePreviewBundle
                   \* call last begun: "yes", "no", "none" = no warning came up
  totalGas,        \* what estimateGasForBundle returned to it
  gpc,             \* the method getCurrentGasPrice is at, "done" once it has a price
  rpcIdx,          \* the endpoint getGasPriceFromMultipleRPCs is at
  tried,           \* the methods and endpoints asked for a gas price so far
  gasPrice,        \* what getCurrentGasPrice returned
  estimatedCost,   \* what calculateEstimatedCost returned
  directTokens,    \* fetchERC20Tokens: the tokens of the direct reads
  apiTokens,       \* the tokens of the explorer's list
  uniqueTokens,    \* its Map, as the entries in insertion order
  mi,              \* the token its forEach is at
  mpc,             \* where it is: "off", "merge" or "returned"
  finalTokens,     \* what it returns
  hpc,             \* hpc[h]: where the h-th handleExecuteBundle call is
  isTransferring,  \* viewer: isTransferring
  outstanding,     \* the calls with a request at the wallet not yet answered and mined
  tokenList,       \* viewer: its tokens state, the list with the selected flags
  selectedNetwork, \* viewer: the network selected, as its chain id
  loads,           \* the handleCheckTokens calls made so far: network, the tokenCache
                   \* entry they see, and where they are ("start", "fetching", "done")
  tokenCache,      \* viewer: tokenCache, by network
  isLoading,       \* viewer: isLoading
  loadError,       \* viewer: handleCheckTokens set an error
  clicked          \* the selection handler called in the last step, NoClick otherwise

wallet == <<hasEthereum, isAmbire, walletChain, walletSwitches>>
clients == <<walletClient, currentChain, pubChain>>
chainState == <<allowance, approved>>
viewer == <<bundle, hasPreview, previewInfo>>
locals == <<path, idx, supportInfo, chainId, networkSwitched, lastRead>>
ghosts == <<submitted, switchLog, reads, capChecked, receipts, txHashes, applied>>
engine == <<wallet, clients, targetChainId, ctorPending, viewer, pc, inv, locals,
            chainState, ghosts, chainRead, result>>
compiler == <<tokens, fromAddress, toAddress, transactions, ti, cpc, thrown, origin, encoded>>
estimator == <<totalGas, gpc, rpcIdx, tried, gasPrice, estimatedCost>>
form == <<selected, connectedAddress, destinationAddress>>
preview == <<form, bundlePreview, showPreview, viewError, ppc, estimateRequested, scamAnswer,
             estimator>>
inventory == <<directTokens, apiTokens, uniqueTokens, mi, mpc, finalTokens>>
clicks == <<hpc, isTransferring, outstanding>>
listing == <<tokenList, selectedNetwork, loads, tokenCache, isLoading, loadError, clicked>>
offViewer == <<inventory, clicks, listing>>
offEngine == <<compiler, preview, offViewer>>
offCompiler == <<preview, offViewer>>
offPreview == <<engine, compiler, offViewer>>
offInventory == <<engine, compiler, preview, clicks, listing>>
offListing == <<engine, compiler, preview, inventory, clicks>>
vars == <<engine, compiler, preview, inventory, clicks, listing>>

\* what the chain holds before the first execution: nothing approved, or enough
InitialAllowances == {<<0, NoAddr>>, <<3, "0xB249">>}

NoResult == [status |-> "none", kind |-> "", hash |-> 0, index |-> 0,
             hashes |-> <<>>, wrapped |-> FALSE]
NoRead == [allowance |-> 0, approved |-> NoAddr]
NoSupport == [supported |-> FALSE, contractAddress |-> NoAddr, chainId |-> 0]

\* the manager after construction, no execution started
EngineInit ==
  /\ hasEthereum \in BOOLEAN
  /\ isAmbire \in (IF hasEthereum THEN BOOLEAN ELSE {FALSE})
  /\ walletChain \in Chains
  /\ walletClient = FALSE /\ currentChain = 0 /\ pubChain = 0
  /\ targetChainId = 0
  /\ ctorPending = hasEthereum
  /\ bundle = <<>> /\ hasPreview = FALSE
  /\ previewInfo = NoSupport
  /\ pc = "idle" /\ path = "none" /\ inv = 0 /\ idx = 0
  /\ supportInfo = NoSupport /\ chainId = 0 /\ networkSwitched = "unset"
  /\ \E a0 \in InitialAllowances :
       /\ allowance = [c \in Chains |-> [s \in PectraAddrs |-> a0[1]]]
       /\ approved = [c \in Chains |-> a0[2]]
  /\ lastRead = NoRead
  /\ walletSwitches = 0
  /\ submitted = <<>> /\ switchLog = <<>> /\ reads = {} /\ capChecked = FALSE
  /\ chainRead = "none"
  /\ receipts = <<>> /\ txHashes = <<>> /\ applied = {}
  /\ result = NoResult

\* no call of prepareBundledTransactions is under way
CompilerOff ==
  /\ tokens = <<>> /\ fromAddress = <<>> /\ toAddress = <<>>
  /\ transactions = <<>> /\ ti = 0 /\ cpc = "off" /\ thrown = "none"
  /\ origin = <<>> /\ encoded = <<>>

NoPreview == [transactions |-> <<>>, totalGasEstimate |-> <<>>, estimatedCost |-> <<>>]

\* no handlePreviewBundle call is under way and none has been made
PreviewOff ==
  /\ selected = {} /\ connectedAddress = <<>> /\ destinationAddress = <<>>
  /\ bundlePreview = NoPreview /\ showPreview = FALSE /\ viewError = "none"
  /\ ppc = "idle" /\ estimateRequested = FALSE /\ scamAnswer = "none"
  /\ totalGas = 0 /\ gpc = "off" /\ rpcIdx = 0 /\ tried = <<>>
  /\ gasPrice = <<>> /\ estimatedCost = <<>>

\* no fetchERC20Tokens call is under way
InventoryOff ==
  /\ directTokens = <<>> /\ apiTokens = <<>> /\ uniqueTokens = <<>>
  /\ mi = 0 /\ mpc = "off" /\ finalTokens = <<>>

\* no handleExecuteBundle call has been made
ClicksOff ==
  /\ hpc = [h \in 1..MaxClicks |-> "off"]
  /\ isTransferring = FALSE /\ outstanding = {}

\* no click in the last step
NoClick == [op |-> "none", tokenId |-> <<>>, selected |-> FALSE]

\* a tokenCache entry that is not there
NotCached == [cached |-> FALSE, list |-> <<>>]

\* the viewer with no wallet connected: no token listed, nothing loaded
ListingOff ==
  /\ tokenList = <<>> /\ selectedNetwork = Sepolia /\ loads = <<>>
  /\ tokenCache = [n \in {Mainnet, Sepolia} |-> NotCached]
  /\ isLoading = FALSE /\ loadError = FALSE /\ clicked = NoClick

Init == EngineInit /\ CompilerOff /\ PreviewOff /\ InventoryOff /\ ClicksOff /\ ListingOff

SetClients(t) == walletClient' = t[1] /\ currentChain' = t[2] /\ pubChain' = t[3]
SetChainState(t) == allowance' = t[1] /\ approved' = t[2]

(* ---------------- the wallet acting on its own ---------------- *)
\* the user (or the wallet) changes the active network outside of any request
WalletSwitches ==
  /\ pc # "done"
  /\ pc # "idle" => walletSwitches < MaxWalletSwitches
  /\ \E c \in Chains \ {walletChain} : walletChain' = c
  /\ walletSwitches' = IF pc = "idle" THEN walletSwitches ELSE walletSwitches + 1
  /\ UNCHANGED <<offEngine, chainRead, hasEthereum, isAmbire, clients, targetChainId, ctorPending, viewer,
                 pc, inv, locals, chainState, ghosts, result>>

(* ---------------- initializeClients ---------------- *)
\* the fields initializeClients leaves behind, as <<walletClient, currentChain, pubChain>>;
\* ok = the eth_chainId request answered, c = the chain id it answered
InitializeClients(ok, c) ==
  IF ~hasEthereum THEN <<walletClient, currentChain, pubChain>>
  ELSE IF ok THEN <<TRUE, IF NETWORKS(c) # 0 THEN NETWORKS(c) ELSE Sepolia, RpcChainFor(c)>>
  ELSE <<TRUE, Sepolia, Sepolia>>

\* the initializeClients() call the constructor leaves running
CtorInitializeClients ==
  /\ ctorPending
  /\ pc = "idle"
  /\ \E ok \in BOOLEAN : SetClients(InitializeClients(ok, walletChain))
  /\ ctorPending' = FALSE
  /\ UNCHANGED <<offEngine, chainRead, wallet, targetChainId, viewer, pc, inv, locals, chainState, ghosts, result>>

(* ---------------- checkEIP7702Support ---------------- *)
\* the clients after checkEIP7702Support read chain id c (ok = the reads answered)
SupportClients(ok, c) ==
  LET ini == IF walletClient THEN <<walletClient, currentChain, pubChain>>
             ELSE InitializeClients(ok, c)
  IN IF ~ini[1] \/ ~ok THEN ini
     ELSE IF NETWORKS(c) # 0 /\ NETWORKS(c) # ini[2]
          THEN <<TRUE, NETWORKS(c), RpcChainFor(c)>>
          ELSE ini

\* an answer that assumes the default network when the wallet cannot be asked
UnavailableAssumed == [supported |-> FALSE, contractAddress |-> NoAddr, chainId |-> Sepolia]

\* lines 236 and 279: { supported: false }, returned when there is no wallet
\* client and from the catch around the reads
Unavailable == [supported |-> FALSE, contractAddress |-> NoAddr, chainId |-> 0]

\* SupportResult read from the chain the clients were last set up for
SupportResultCached(ok, c) ==
  IF ~walletClient \/ ~ok THEN NoSupport
  ELSE IF PECTRA_BUNDLE_CONTRACTS(currentChain) # NoAddr
       THEN [supported |-> TRUE, contractAddress |-> PECTRA_BUNDLE_CONTRACTS(currentChain),
             chainId |-> currentChain]
       ELSE [supported |-> FALSE, contractAddress |-> NoAddr, chainId |-> currentChain]

\* the value checkEIP7702Support returns
SupportResult(ok, c) ==
  LET ini == IF walletClient THEN <<walletClient, currentChain, pubChain>>
             ELSE InitializeClients(ok, c)
  IN IF ~ini[1] \/ ~ok THEN Unavailable
     ELSE IF PECTRA_BUNDLE_CONTRACTS(c) # NoAddr /\ NETWORKS(c) # 0
          THEN [supported |-> TRUE, contractAddress |-> PECTRA_BUNDLE_CONTRACTS(c), chainId |-> c]
          ELSE [supported |-> FALSE, contractAddress |-> NoAddr, chainId |-> c]

\* how the call's chain id read ended: there was no wallet to ask ("unreachable"),
\* the request threw ("failed"), or it answered ("ok")
ChainReadOutcome(ok) ==
  IF ~walletClient /\ ~hasEthereum THEN "unreachable"
  ELSE IF ok THEN "ok" ELSE "failed"

\* the networks the viewer offers, with their eip7702Supported flag
Eip7702Flag(c) == c = Sepolia

\* the viewer's two effects on selectedNetwork: setTargetChainId, and the support
\* check (made only for a network flagged eip7702Supported)
SelectNetwork ==
  /\ pc = "idle" /\ inv = 0
  /\ \E c \in Chains :
       /\ targetChainId' = c
       /\ IF Eip7702Flag(c)
          THEN \E ok \in BOOLEAN :
                 /\ SetClients(SupportClients(ok, walletChain))
                 /\ previewInfo' = SupportResult(ok, walletChain)
                 /\ chainRead' = ChainReadOutcome(ok)
          ELSE /\ previewInfo' = NoSupport
               /\ chainRead' = "none"
               /\ UNCHANGED clients
  /\ UNCHANGED <<offEngine, wallet, ctorPending, bundle, hasPreview, pc, inv, locals, chainState,
                 ghosts, result>>

\* handlePreviewBundle stores the preview of the compiled selection
HandlePreviewBundle ==
  /\ pc = "idle" /\ inv = 0
  /\ \E b \in Bundles : bundle' = b
  /\ hasPreview' = TRUE
  /\ UNCHANGED <<offEngine, chainRead, wallet, clients, targetChainId, ctorPending, previewInfo, pc, inv, locals,
                 chainState, ghosts, result>>

(* ---------------- executeEIP7702Bundle ---------------- *)
\* an Error thrown to the caller of execute
Failure(kind, index, wrapped) ==
  [status |-> "fail", kind |-> kind, hash |-> 0, index |-> index,
   hashes |-> <<>>, wrapped |-> wrapped]

Success(hash) ==
  [status |-> "ok", kind |-> "", hash |-> hash, index |-> 0,
   hashes |-> <<>>, wrapped |-> FALSE]

\* handleExecuteBundle calls executeEIP7702Bundle(bundlePreview)
Execute ==
  /\ pc = "idle"
  /\ hasPreview
  /\ inv < MaxInvocations
  /\ inv' = inv + 1
  /\ pc' = IF walletClient THEN "e_check" ELSE "e_init"
  /\ path' = "none" /\ idx' = 0 /\ supportInfo' = NoSupport /\ chainId' = 0 /\ networkSwitched' = "unset"
  /\ lastRead' = NoRead
  /\ submitted' = <<>> /\ switchLog' = <<>> /\ reads' = {} /\ capChecked' = FALSE
  /\ chainRead' = "none"
  /\ receipts' = <<>> /\ txHashes' = <<>> /\ applied' = {}
  /\ result' = NoResult
  /\ UNCHANGED <<offEngine, wallet, clients, targetChainId, ctorPending, viewer, chainState>>

\* lines 685-690: the wallet client is created on demand
ExecInit ==
  /\ pc = "e_init"
  /\ \E ok \in BOOLEAN :
       /\ SetClients(InitializeClients(ok, walletChain))
       /\ IF InitializeClients(ok, walletChain)[1]
          THEN pc' = "e_check" /\ result' = result
          ELSE pc' = "done" /\ result' = Failure("NoWalletClient", 0, FALSE)
  /\ UNCHANGED <<offEngine, chainRead, wallet, targetChainId, ctorPending, viewer, inv, locals, chainState, ghosts>>

\* this.targetChainId || x
OrElse(a, b) == IF a # 0 THEN a ELSE b

\* the chain execute works towards in the atomic path (line 702)
AtomicChainId(info) == OrElse(targetChainId, info.chainId)

\* the chain executeBatchTransactions works towards (line 864)
SequentialChainId(cur) == OrElse(targetChainId, OrElse(cur, Sepolia))

\* the fallback taken only for a network reported as unsupported
FallbackWhenReported(info) == ~info.supported /\ info.chainId # 0

\* line 696: execute hands the bundle to executeBatchTransactions
Fallback(info) == ~info.supported \/ info.contractAddress = NoAddr \/ info.chainId = 0

\* lines 694-703 and, in the fallback, 847-864
ExecCheckSupport ==
  /\ pc = "e_check"
  /\ \E ok \in BOOLEAN :
       LET info == SupportResult(ok, walletChain)
           cl == SupportClients(ok, walletChain)
       IN /\ SetClients(cl)
          /\ supportInfo' = info
          /\ capChecked' = TRUE
          /\ chainRead' = ChainReadOutcome(ok)
          /\ IF Fallback(info)
             THEN /\ path' = "seq"
                  /\ chainId' = SequentialChainId(cl[2])
                  /\ pc' = "net_read"
             ELSE /\ path' = "atomic"
                  /\ chainId' = AtomicChainId(info)
                  /\ pc' = "a_addr"
  /\ UNCHANGED <<offEngine, wallet, targetChainId, ctorPending, viewer, inv, idx, networkSwitched,
                 lastRead, chainState, submitted, switchLog, reads, receipts, txHashes,
                 applied, result>>

\* lines 709-712: getAddresses
AtomicGetAddresses ==
  /\ pc = "a_addr"
  /\ \E hasAccount \in BOOLEAN :
       IF hasAccount THEN pc' = "net_read" /\ result' = result
       ELSE pc' = "done" /\ result' = Failure("NoAccounts", 0, TRUE)
  /\ UNCHANGED <<offEngine, chainRead, wallet, clients, targetChainId, ctorPending, viewer, inv, locals,
                 chainState, ghosts>>

(* ---------------- ensureCorrectNetwork ---------------- *)
\* what no step of an execution changes
fixed == <<hasEthereum, isAmbire, walletSwitches, targetChainId, ctorPending, viewer, inv,
           chainRead, offEngine>>
\* the locals ensureCorrectNetwork leaves alone
netFrame == <<path, idx, supportInfo, chainId, lastRead, chainState, submitted, reads,
              capChecked, receipts, txHashes, applied>>

\* the method tried after method m failed (lines 603-604, 626)
NextMethod(m) == IF m = 1 /\ isAmbire THEN "net_m2" ELSE "net_m3"

\* wallet_addEthereumChain has parameters for Sepolia only (lines 631-648)
HasChainParams(c) == c = Sepolia

\* NetReturn with the returned value ignored by the caller
NetReturnIgnored(ok) ==
  /\ networkSwitched' = IF ok THEN "true" ELSE "false"
  /\ pc' = "reinit" /\ result' = result

\* where the caller goes with the value ensureCorrectNetwork returned
\* (lines 717-725 in the atomic path, 867-874 in the fallback)
NetReturn(ok) ==
  /\ networkSwitched' = IF ok THEN "true" ELSE "false"
  /\ IF ok THEN pc' = "reinit" /\ result' = result
     ELSE pc' = "done" /\ result' = Failure("WrongNetwork", 0, path = "atomic")

NetContinue(to) == pc' = to /\ UNCHANGED <<networkSwitched, result>>

\* lines 562-577: read the chain id, return at once when it is the target
NetRead ==
  /\ pc = "net_read"
  /\ IF ~hasEthereum THEN NetReturn(FALSE)
     ELSE \E ok \in BOOLEAN :
            IF ~ok THEN NetReturn(FALSE)
            ELSE IF walletChain = chainId THEN NetReturn(TRUE)
            ELSE NetContinue("net_m1")
  /\ UNCHANGED <<fixed, walletChain, clients, netFrame, switchLog>>

\* a switch request: the wallet switches, or the request is rejected
SwitchRequest(at, method, m, verify) ==
  /\ pc = at
  /\ switchLog' = Append(switchLog, method)
  /\ \/ /\ walletChain' = chainId
        /\ NetContinue(verify)
     \/ /\ walletChain' = walletChain
        /\ IF m = 3 THEN NetReturn(FALSE) ELSE NetContinue(NextMethod(m))
  /\ UNCHANGED <<fixed, clients, netFrame>>

\* the re-read of the chain id after a switch request
SwitchVerify(at, m) ==
  /\ pc = at
  /\ \E ok \in BOOLEAN :
       IF ok /\ walletChain = chainId THEN NetReturn(TRUE)
       ELSE IF m = 3 THEN NetReturn(FALSE)
       ELSE NetContinue(NextMethod(m))
  /\ UNCHANGED <<fixed, walletChain, clients, netFrame, switchLog>>

\* method 1, lines 582-601
NetMethod1 == SwitchRequest("net_m1", "wallet_switchEthereumChain", 1, "net_m1v")
NetMethod1Verify == SwitchVerify("net_m1v", 1)
\* method 2, lines 604-624
NetMethod2 == SwitchRequest("net_m2", "wallet_setNetwork", 2, "net_m2v")
NetMethod2Verify == SwitchVerify("net_m2v", 2)
\* method 3, lines 627-665
NetMethod3 ==
  \/ /\ HasChainParams(chainId)
     /\ SwitchRequest("net_m3", "wallet_addEthereumChain", 3, "net_m3v")
  \/ /\ ~HasChainParams(chainId)
     /\ pc = "net_m3"
     /\ NetReturn(FALSE)
     /\ UNCHANGED <<fixed, walletChain, clients, netFrame, switchLog>>
NetMethod3Verify == SwitchVerify("net_m3v", 3)

\* lines 725 and 874: initializeClients after the switch
Reinitialize ==
  /\ pc = "reinit"
  /\ \E ok \in BOOLEAN : SetClients(InitializeClients(ok, walletChain))
  /\ pc' = IF path = "atomic" THEN "a_verify" ELSE "s_addr"
  /\ UNCHANGED <<fixed, walletChain, netFrame, networkSwitched, switchLog, result>>

(* ---------------- the atomic path ---------------- *)
\* NextApproval with the non-fungible branch of the loop left out
RECURSIVE NextApprovalFungibleOnly(_)
NextApprovalFungibleOnly(j) ==
  IF j > Len(bundle) THEN j
  ELSE IF IsERC20Tx(bundle[j]) THEN j
  ELSE NextApprovalFungibleOnly(j + 1)

\* the first sub-operation at or after j that needs an allowance check (lines 740-745, 760)
RECURSIVE NextApproval(_)
NextApproval(j) ==
  IF j > Len(bundle) THEN j
  ELSE IF IsERC20Tx(bundle[j]) \/ IsERC721Tx(bundle[j]) THEN j
  ELSE NextApproval(j + 1)

\* the loop of lines 740-776 goes on with the first sub-operation at or after j
LoopFrom(j) ==
  /\ idx' = NextApproval(j)
  /\ pc' = IF NextApproval(j) > Len(bundle) THEN "a_submit" ELSE "a_read"

\* a throw that execute catches to send the batch call again
ThrowAndRetry(err) == pc' = "a_submit" /\ result' = err

\* throw: the invocation ends with the error (the catch of lines 826-841 rethrows)
Throw(err) == pc' = "done" /\ result' = err

\* lines 728-733: the chain id is verified once more
AtomicVerify ==
  /\ pc = "a_verify"
  /\ \E ok \in BOOLEAN :
       IF ~ok THEN Throw(Failure("RpcError", 0, TRUE)) /\ idx' = idx
       ELSE IF walletChain # chainId
            THEN Throw(Failure("WrongNetwork", 0, TRUE)) /\ idx' = idx
       ELSE LoopFrom(1) /\ result' = result
  /\ UNCHANGED <<fixed, walletChain, clients, path, supportInfo, chainId, networkSwitched,
                 lastRead, chainState, ghosts>>

\* the amount a fungible sub-operation's call-data carries (line 751)
AmountOf(tx) == tx.data[3]

\* AllowanceSufficient with a strict comparison
AllowanceStrictlyGreater(allow, amount) == allow > amount

\* allowance >= amount (line 310)
AllowanceSufficient(allow, amount) == allow >= amount

\* approved.toLowerCase() === pectraContract.toLowerCase() (line 369)
ApprovalSufficient(appr, contract) == appr = contract

\* ReadSufficient with every read taken as sufficient
ReadAssumedSufficient(tx, rd) == TRUE

\* what the read finds sufficient for sub-operation tx
ReadSufficient(tx, rd) ==
  IF IsERC20Tx(tx) THEN AllowanceSufficient(rd.allowance, AmountOf(tx))
  ELSE ApprovalSufficient(rd.approved, supportInfo.contractAddress)

\* the value the chain behind the public client returns for sub-operation tx
ReadContract(tx) ==
  [allowance |-> IF IsERC20Tx(tx) THEN allowance[pubChain][supportInfo.contractAddress] ELSE 0,
   approved |-> IF IsERC721Tx(tx) THEN approved[pubChain] ELSE NoAddr]

\* lines 300-313 and 359-372: the allowance (approval) is read through the public client
AtomicReadAllowance ==
  /\ pc = "a_read"
  /\ \/ /\ lastRead' = ReadContract(bundle[idx])
        /\ reads' = reads \cup {idx}
        /\ IF ReadSufficient(bundle[idx], ReadContract(bundle[idx]))
           THEN LoopFrom(idx + 1)
           ELSE pc' = "a_approve" /\ idx' = idx
        /\ result' = result
     \/ /\ Throw(Failure("AllowanceApprovalFailed", idx, TRUE))
        /\ UNCHANGED <<lastRead, reads, idx>>
  /\ UNCHANGED <<fixed, walletChain, clients, path, supportInfo, chainId, networkSwitched,
                 chainState, submitted, switchLog, capChecked, receipts, txHashes, applied>>

\* a signing request the wallet accepted, with the chain the wallet was on
\* (value and gas are 0 where the request gives none)
Request(kind, i, to, args, value, gas) ==
  [kind |-> kind, idx |-> i, chain |-> walletChain, target |-> chainId, to |-> to,
   args |-> args, value |-> value, gas |-> gas, read |-> lastRead,
   hash |-> Len(submitted) + 1]

submitFrame == <<fixed, walletChain, clients, path, idx, supportInfo, chainId,
                 networkSwitched, lastRead, chainState, switchLog, reads, capChecked,
                 receipts, applied>>

\* lines 318-326 and 377-385: the approval is sent to the wallet
AtomicApprove ==
  /\ pc = "a_approve"
  /\ \/ /\ submitted' = Append(submitted,
                          Request("approve", idx, bundle[idx].to,
                                  <<supportInfo.contractAddress>>, 0, 0))
        /\ pc' = "a_approve_wait" /\ result' = result
     \/ /\ Throw(Failure("AllowanceApprovalFailed", idx, TRUE))
        /\ submitted' = submitted
  /\ UNCHANGED <<submitFrame, txHashes>>

\* the chain state after the approval of sub-operation tx was mined with success on chain c
ApprovalEffect(tx, c, contract) ==
  IF IsERC20Tx(tx)
  THEN <<[allowance EXCEPT ![c][contract] = AmountOf(tx)], approved>>
  ELSE <<allowance, [approved EXCEPT ![c] = contract]>>

\* what checkAndApprove does with the receipt of its approval (lines 332-335, 391-394):
\* it returns true whatever the status of the receipt
ApprovalReceiptAccepted(status) == TRUE

\* lines 330-335 and 389-394: the receipt of the approval is awaited; when the wait
\* throws, the approval may have been mined or not
AtomicApproveWait ==
  /\ pc = "a_approve_wait"
  /\ LET req == submitted[Len(submitted)]
         mined == ApprovalEffect(bundle[idx], req.chain, req.args[1])
     IN \/ \E status \in {"success", "reverted"} :
             /\ receipts' = Append(receipts, status)
             /\ SetChainState(IF status = "success" THEN mined ELSE chainState)
             /\ IF ApprovalReceiptAccepted(status)
                THEN LoopFrom(idx + 1) /\ result' = result
                ELSE Throw(Failure("AllowanceApprovalFailed", idx, TRUE)) /\ idx' = idx
        \/ /\ receipts' = Append(receipts, "error")
           /\ \/ SetChainState(mined)
              \/ UNCHANGED chainState
           /\ Throw(Failure("AllowanceApprovalFailed", idx, TRUE))
           /\ idx' = idx
  /\ UNCHANGED <<fixed, walletChain, clients, path, supportInfo, chainId, networkSwitched,
                 lastRead, submitted, switchLog, reads, capChecked, txHashes, applied>>

\* BatchArgs with the last sub-operation left out
BatchArgsShort(b) ==
  [i \in 1..(Len(b) - 1) |-> [to |-> b[i].to, value |-> b[i].value, data |-> b[i].data]]

\* the arrays handed to executeBatch (lines 779-781), as the sub-operations they carry
BatchArgs(b) == [i \in 1..Len(b) |-> [to |-> b[i].to, value |-> b[i].value, data |-> b[i].data]]

\* values.reduce((sum, val) => sum + val, BigInt(0)) from entry k on (line 792)
RECURSIVE ValuesFrom(_, _)
ValuesFrom(args, k) == IF k > Len(args) THEN 0 ELSE args[k].value + ValuesFrom(args, k + 1)

totalValue(args) == ValuesFrom(args, 1)

\* the gas estimateGasForBundle counts for sub-operation tx (lines 530-543)
KindGas(tx) ==
  IF IsNativeTx(tx) THEN 21000
  ELSE IF IsERC20Tx(tx) THEN 65000
  ELSE IF IsERC721Tx(tx) THEN 85000
  ELSE 50000

RECURSIVE KindGasFrom(_, _)
KindGasFrom(b, k) == IF k > Len(b) THEN 0 ELSE KindGas(b[k]) + KindGasFrom(b, k + 1)

\* bundle.totalGasEstimate as handlePreviewBundle stored it: the result of
\* estimateGasForBundle for the sub-operations of the bundle
totalGasEstimate(b) == 21000 + KindGasFrom(b, 1) + 150000

\* gasLimit with the estimate taken as it is
gasLimitAsEstimated(estimate) == estimate

\* BigInt(bundle.totalGasEstimate) * BigInt(2) (line 796)
gasLimit(estimate) == estimate * 2

\* lines 800-808: the batch call is sent to the wallet
AtomicSubmit ==
  /\ pc = "a_submit"
  /\ \/ /\ submitted' = Append(submitted,
                          Request("batch", 0, supportInfo.contractAddress, BatchArgs(bundle),
                                  totalValue(BatchArgs(bundle)),
                                  gasLimit(totalGasEstimate(bundle))))
        /\ pc' = "a_wait" /\ result' = result
     \/ /\ Throw(Failure("SubmitFailed", 0, TRUE))
        /\ submitted' = submitted
  /\ UNCHANGED <<submitFrame, txHashes>>

\* ReceiptSucceeded with the status never looked at
ReceiptIgnored(status) == TRUE

\* receipt?.status === "success" (lines 818 and 911)
ReceiptSucceeded(status) == status = "success"

\* the Error thrown for a batch receipt whose status is not success (line 822),
\* as the catch of line 840 rethrows it; h is the hash of the mined transaction
BatchRevertedError(h) == Failure("RevertedOnChain", 0, TRUE)

\* the sub-operations one mined batch call carries out
BatchEffect(req) == {i \in 1..Len(bundle) : i <= Len(req.args)}

waitFrame == <<fixed, walletChain, clients, path, supportInfo, chainId, networkSwitched,
               lastRead, chainState, submitted, switchLog, reads, capChecked, txHashes>>

\* lines 814-825: the receipt of the batch call; when the wait throws, the
\* transaction may have been mined or not
AtomicWait ==
  /\ pc = "a_wait"
  /\ LET req == submitted[Len(submitted)]
     IN \/ \E status \in {"success", "reverted"} :
             /\ receipts' = Append(receipts, status)
             /\ applied' = IF status = "success" THEN BatchEffect(req) ELSE applied
             /\ result' = IF ReceiptSucceeded(status) THEN Success(req.hash)
                          ELSE BatchRevertedError(req.hash)
        \/ /\ receipts' = Append(receipts, "error")
           /\ applied' \in {applied, BatchEffect(req)}
           /\ result' = Failure("ReceiptError", 0, TRUE)
  /\ pc' = "done"
  /\ UNCHANGED <<waitFrame, idx>>

(* ---------------- the sequential path: executeBatchTransactions ---------------- *)
\* the loop condition i < transactions.length after sub-operation i (line 885)
SeqHasNext(i) == i < Len(bundle)

\* txHashes[0], undefined (0) while no hash was pushed (line 931)
FirstHash(hs) == IF Len(hs) > 0 THEN hs[1] ELSE 0

\* lines 876-885: getAddresses, then the loop is entered; it is left at once,
\* and txHashes[0] returned, when the bundle has no sub-operation
SeqGetAddresses ==
  /\ pc = "s_addr"
  /\ \E hasAccount \in BOOLEAN :
       IF ~hasAccount THEN Throw(Failure("NoAccounts", 0, FALSE)) /\ idx' = idx
       ELSE IF SeqHasNext(0) THEN pc' = "s_send" /\ idx' = 1 /\ result' = result
       ELSE pc' = "done" /\ idx' = idx /\ result' = Success(FirstHash(txHashes))
  /\ UNCHANGED <<fixed, walletChain, clients, path, supportInfo, chainId, networkSwitched,
                 lastRead, chainState, ghosts>>

\* the Error the catch of lines 923-927 throws for sub-operation i; hs = txHashes
SeqError(kind, i, hs) == Failure(kind, i, FALSE)

\* tx.gasLimit ? BigInt(tx.gasLimit) * BigInt(2) : BigInt(100000) (line 892)
SeqGasLimit(tx) == IF tx.gasLimit # 0 THEN tx.gasLimit * 2 ELSE 100000

\* lines 895-905: sub-operation idx is sent to the wallet
SeqSend ==
  /\ pc = "s_send"
  /\ \/ /\ submitted' = Append(submitted,
                          Request("send", idx, bundle[idx].to, <<currentChain>>,
                                  bundle[idx].value, SeqGasLimit(bundle[idx])))
        /\ txHashes' = Append(txHashes, Len(submitted) + 1)
        /\ pc' = "s_wait" /\ result' = result
     \/ /\ Throw(SeqError("SendFailed", idx, txHashes))
        /\ UNCHANGED <<submitted, txHashes>>
  /\ UNCHANGED submitFrame

\* lines 909-922 and 930-931: the receipt of sub-operation idx; when the wait
\* throws, the transaction may have been mined or not
SeqWait ==
  /\ pc = "s_wait"
  /\ \/ \E status \in {"success", "reverted"} :
          /\ receipts' = Append(receipts, status)
          /\ applied' = IF status = "success" THEN applied \cup {idx} ELSE applied
          /\ IF ReceiptSucceeded(status)
             THEN IF SeqHasNext(idx)
                  THEN pc' = "s_send" /\ idx' = idx + 1 /\ result' = result
                  ELSE pc' = "done" /\ idx' = idx /\ result' = Success(FirstHash(txHashes))
             ELSE Throw(SeqError("RevertedOnChain", idx, txHashes)) /\ idx' = idx
     \/ /\ receipts' = Append(receipts, "error")
        /\ applied' \in {applied, applied \cup {idx}}
        /\ Throw(SeqError("ReceiptError", idx, txHashes))
        /\ idx' = idx
  /\ UNCHANGED waitFrame

\* handleExecuteBundle after execute returned or threw: the preview is cleared on
\* success only, the error is shown otherwise
HandleExecuteReturn ==
  /\ pc = "done"
  /\ pc' = "idle"
  /\ IF result.status = "ok"
     THEN bundle' = <<>> /\ hasPreview' = FALSE
     ELSE UNCHANGED <<bundle, hasPreview>>
  /\ path' = "none" /\ idx' = 0 /\ supportInfo' = NoSupport /\ chainId' = 0
  /\ networkSwitched' = "unset" /\ lastRead' = NoRead
  /\ submitted' = <<>> /\ switchLog' = <<>> /\ reads' = {} /\ capChecked' = FALSE
  /\ chainRead' = "none"
  /\ receipts' = <<>> /\ txHashes' = <<>> /\ applied' = {}
  /\ result' = NoResult
  /\ UNCHANGED <<offEngine, wallet, clients, targetChainId, ctorPending, previewInfo, inv, chainState>>

Next ==
  \/ WalletSwitches
  \/ CtorInitializeClients
  \/ SelectNetwork
  \/ HandlePreviewBundle
  \/ HandleExecuteReturn
  \/ Execute
  \/ ExecInit
  \/ ExecCheckSupport
  \/ AtomicGetAddresses
  \/ NetRead
  \/ NetMethod1
  \/ NetMethod1Verify
  \/ NetMethod2
  \/ NetMethod2Verify
  \/ NetMethod3
  \/ NetMethod3Verify
  \/ Reinitialize
  \/ AtomicVerify
  \/ AtomicReadAllowance
  \/ AtomicApprove
  \/ AtomicApproveWait
  \/ AtomicSubmit
  \/ AtomicWait
  \/ SeqGetAddresses
  \/ SeqSend
  \/ SeqWait

Spec == Init /\ [][Next]_vars

(* ---------------- integers and doubles of the compiler ---------------- *)
\* a bigint of any size, as its digits in base LimbBase, least significant
\* first and without leading zeros; <<>> is 0
LimbBits == 12
LimbBase == 4096

RECURSIVE Norm(_)
Norm(a) ==
  IF a = <<>> THEN <<>>
  ELSE IF a[Len(a)] = 0 THEN Norm(SubSeq(a, 1, Len(a) - 1)) ELSE a

LimbAt(a, i) == IF i <= Len(a) THEN a[i] ELSE 0

RECURSIVE AddFrom(_, _, _, _)
AddFrom(a, b, i, carry) ==
  IF i > Len(a) /\ i > Len(b) THEN (IF carry > 0 THEN <<carry>> ELSE <<>>)
  ELSE LET s == LimbAt(a, i) + LimbAt(b, i) + carry
       IN <<s % LimbBase>> \o AddFrom(a, b, i + 1, s \div LimbBase)

\* a + b
Add(a, b) == AddFrom(a, b, 1, 0)

RECURSIVE MulSmallFrom(_, _, _, _)
MulSmallFrom(a, m, i, carry) ==
  IF i > Len(a) THEN (IF carry > 0 THEN <<carry>> ELSE <<>>)
  ELSE LET p == a[i] * m + carry
       IN <<p % LimbBase>> \o MulSmallFrom(a, m, i + 1, p \div LimbBase)

\* a * m for a number m below LimbBase
MulSmall(a, m) == IF m = 0 THEN <<>> ELSE MulSmallFrom(a, m, 1, 0)

\* a * LimbBase^k
ShiftLimbs(a, k) == IF a = <<>> THEN <<>> ELSE [i \in 1..k |-> 0] \o a

RECURSIVE MulFrom(_, _, _)
MulFrom(a, b, i) ==
  IF i > Len(b) THEN <<>>
  ELSE Add(ShiftLimbs(MulSmall(a, b[i]), i - 1), MulFrom(a, b, i + 1))

\* a * b
Mul(a, b) == MulFrom(a, b, 1)

RECURSIVE DivSmallFrom(_, _, _, _, _)
DivSmallFrom(a, d, i, q, r) ==
  IF i = 0 THEN [q |-> Norm(q), r |-> r]
  ELSE LET n == r * LimbBase + a[i]
       IN DivSmallFrom(a, d, i - 1, <<n \div d>> \o q, n % d)

\* quotient and remainder of a by a number d of at most 19 binary digits
DivSmall(a, d) == DivSmallFrom(a, d, Len(a), <<>>, 0)

\* BigInt(n) of a number
RECURSIVE BigInt(_)
BigInt(n) == IF n = 0 THEN <<>> ELSE <<n % LimbBase>> \o BigInt(n \div LimbBase)

\* BigInt(10) ** BigInt(d)
RECURSIVE Pow10(_)
Pow10(d) == IF d = 0 THEN <<1>> ELSE MulSmall(Pow10(d - 1), 10)

\* the number of binary digits of a number below LimbBase, and of a bigint
RECURSIVE SmallBitLen(_)
SmallBitLen(n) == IF n = 0 THEN 0 ELSE 1 + SmallBitLen(n \div 2)
BitLen(a) == IF a = <<>> THEN 0 ELSE LimbBits * (Len(a) - 1) + SmallBitLen(a[Len(a)])

\* a * 2^k and floor(a / 2^k)
Shl(a, k) == ShiftLimbs(MulSmall(a, 2 ^ (k % LimbBits)), k \div LimbBits)
Shr(a, k) ==
  IF k \div LimbBits >= Len(a) THEN <<>>
  ELSE DivSmall(SubSeq(a, k \div LimbBits + 1, Len(a)), 2 ^ (k % LimbBits)).q

\* binary digit i of a, the least significant being digit 1
BitAt(a, i) == (LimbAt(a, (i - 1) \div LimbBits + 1) \div 2 ^ ((i - 1) % LimbBits)) % 2

\* a has a non-zero digit among its k least significant binary digits
LowBitsSet(a, k) ==
  \/ \E i \in 1..(k \div LimbBits) : LimbAt(a, i) # 0
  \/ LimbAt(a, k \div LimbBits + 1) % 2 ^ (k % LimbBits) # 0

\* a Number (IEEE-754 double) that is neither NaN nor infinite nor subnormal:
\* m * 2^e with m of at most MantissaBits binary digits
MantissaBits == 53

\* the double nearest to n * 2^e, ties to even; sticky = the exact value lies
\* above n * 2^e by less than 2^e
RoundToDouble(n, e, sticky) ==
  IF BitLen(n) <= MantissaBits THEN [m |-> n, e |-> e]
  ELSE LET k == BitLen(n) - MantissaBits
           kept == Shr(n, k)
           half == BitAt(n, k) = 1
           rest == sticky \/ LowBitsSet(n, k - 1)
           up == half /\ (rest \/ BitAt(kept, 1) = 1)
           m == IF up THEN Add(kept, <<1>>) ELSE kept
       IN IF BitLen(m) > MantissaBits
          THEN [m |-> Shr(m, 1), e |-> e + k + 1]
          ELSE [m |-> m, e |-> e + k]

\* x * y of two doubles
MulDouble(x, y) == RoundToDouble(Mul(x.m, y.m), x.e + y.e, FALSE)

\* Number(n) of a bigint
NumberOf(n) == RoundToDouble(n, 0, FALSE)

\* BigInt(Math.floor(x)) of a double x >= 0
FloorBigInt(x) == IF x.e >= 0 THEN Shl(x.m, x.e) ELSE Shr(x.m, 0 - x.e)

\* a decimal string: its characters
Digits == <<"0", "1", "2", "3", "4", "5", "6", "7", "8", "9">>
DigitValue(ch) == (CHOOSE k \in 1..10 : Digits[k] = ch) - 1

\* the place of the decimal point in s, Len(s) + 1 when there is none
PointAt(s) ==
  IF \E i \in 1..Len(s) : s[i] = "." THEN CHOOSE i \in 1..Len(s) : s[i] = "." ELSE Len(s) + 1

\* the digits before and after the decimal point, as one integer
RECURSIVE DigitsValue(_, _, _)
DigitsValue(s, i, acc) ==
  IF i > Len(s) THEN acc
  ELSE IF s[i] = "." THEN DigitsValue(s, i + 1, acc)
  ELSE DigitsValue(s, i + 1, Add(MulSmall(acc, 10), BigInt(DigitValue(s[i]))))

\* the number of digits after the decimal point
FractionDigits(s) == IF PointAt(s) > Len(s) THEN 0 ELSE Len(s) - PointAt(s)

\* Number.parseFloat(s) of an unsigned decimal string: the nearest double
ParseFloat(s) ==
  LET n == DigitsValue(s, 1, <<>>)
      f == FractionDigits(s)
      k == MantissaBits + 2 + SmallBitLen(10 ^ f)
      d == DivSmall(Shl(n, k), 10 ^ f)
  IN IF f = 0 THEN RoundToDouble(n, 0, FALSE)
     ELSE RoundToDouble(d.q, 0 - k, d.r # 0)

\* x <= 0 of a double parsed from an unsigned string
NotPositive(x) == x.m = <<>>

(* ---------------- strings of the compiler: addresses and call-data ---------------- *)
\* a string is the sequence of its characters
HexChars == <<"0", "1", "2", "3", "4", "5", "6", "7", "8", "9", "a", "b", "c", "d", "e", "f">>
UpperChars == <<"A", "B", "C", "D", "E", "F">>

ToLower(ch) ==
  IF \E k \in 1..6 : UpperChars[k] = ch
  THEN HexChars[10 + (CHOOSE k \in 1..6 : UpperChars[k] = ch)]
  ELSE ch

\* s.toLowerCase()
toLowerCase(s) == [i \in 1..Len(s) |-> ToLower(s[i])]

IsHexChar(ch) == \E k \in 1..16 : HexChars[k] = ToLower(ch)
HexValue(ch) == (CHOOSE k \in 1..16 : HexChars[k] = ToLower(ch)) - 1

\* /^0x[a-fA-F0-9]{40}$/.test(address)
isValidEthereumAddress(address) ==
  /\ Len(address) = 42
  /\ address[1] = "0" /\ address[2] = "x"
  /\ \A i \in 3..42 : IsHexChar(address[i])

\* s.startsWith(prefix)
StartsWith(s, prefix) == Len(s) >= Len(prefix) /\ SubSeq(s, 1, Len(prefix)) = prefix

\* the hexadecimal digits of a bigint, three to a limb, most significant first
LimbChars(a) ==
  [i \in 1..(3 * Len(a)) |->
     LET limb == a[Len(a) - (i - 1) \div 3]
         pos == (i - 1) % 3
     IN HexChars[1 + (IF pos = 0 THEN limb \div 256
                      ELSE IF pos = 1 THEN (limb \div 16) % 16
                      ELSE limb % 16)]]

\* BigInt(`0x${chars}`)
FromHex(chars) ==
  LET n == Len(chars)
      v(p) == IF p >= 1 THEN HexValue(chars[p]) ELSE 0
  IN Norm([j \in 1..((n + 2) \div 3) |->
             256 * v(n - 3 * j + 1) + 16 * v(n - 3 * j + 2) + v(n - 3 * j + 3)])

\* AbiWord with the padding left out
AbiWordUnpadded(chars) == chars

\* a 32-byte word of call-data: chars padded with zeros on the left to 64 digits
AbiWord(chars) ==
  [i \in 1..64 |-> LET j == i - 64 + Len(chars) IN IF j >= 1 THEN chars[j] ELSE "0"]

Prefix0x == <<"0", "x">>
SelTransferChars == <<"0", "x", "a", "9", "0", "5", "9", "c", "b", "b">>
SelTransferFromChars == <<"0", "x", "2", "3", "b", "8", "7", "2", "d", "d">>

\* SelectorOf with the transfer selector for every function
SelectorAlwaysTransfer(functionName) == SelTransferChars

\* the selector encodeFunctionData puts in front of the arguments
SelectorOf(functionName) ==
  IF functionName = "transfer" THEN SelTransferChars ELSE SelTransferFromChars

\* encodeFunctionData: selector, then one word per argument; an address
\* argument is written in lower case without its 0x
AddressWord(address) == AbiWord(SubSeq(toLowerCase(address), 3, Len(address)))
NumberWord(n) == AbiWord(LimbChars(n))
EncodeTransfer(to, amount) == SelectorOf("transfer") \o AddressWord(to) \o NumberWord(amount)
EncodeTransferFrom(from, to, tokenId) ==
  SelectorOf("transferFrom") \o AddressWord(from) \o AddressWord(to) \o NumberWord(tokenId)

\* whether encodeFunctionData takes these arguments: an address written in
\* lower case is taken, one with capitals is taken when its capitals are its
\* checksum, which is not computed here; a number must fit 256 binary digits
EncodeOutcomes(addresses, n) ==
  IF BitLen(n) > 256 THEN {FALSE}
  ELSE IF \A a \in addresses : toLowerCase(a) = a THEN {TRUE}
  ELSE BOOLEAN

\* s.slice(start, end) and s.slice(start), positions counted from 0
Slice(s, start, end) == SubSeq(s, start + 1, IF end < Len(s) THEN end ELSE Len(s))
SliceFrom(s, start) == SubSeq(s, start + 1, Len(s))

\* the execution engine reading a transfer back (lines 746-751)
DecodeTransfer(data) ==
  LET transferData == SliceFrom(data, 10)
  IN [to |-> Prefix0x \o SliceFrom(Slice(transferData, 0, 64), 24),
      amount |-> FromHex(SliceFrom(transferData, 64))]

\* the execution engine reading a transferFrom back (lines 761-767)
DecodeTransferFrom(data) ==
  LET transferData == SliceFrom(data, 10)
  IN [from |-> Prefix0x \o SliceFrom(Slice(transferData, 0, 64), 24),
      to |-> Prefix0x \o SliceFrom(Slice(transferData, 64, 128), 24),
      tokenId |-> FromHex(SliceFrom(transferData, 128))]

(* ---------------- prepareBundledTransactions ---------------- *)
\* decimals?: undefined
Undefined == -1

\* token.decimals || 18
DecimalsOrDefault(decimals) == IF decimals = Undefined \/ decimals = 0 THEN 18 ELSE decimals

\* parseEther(balance): the decimal string scaled by 10^18, digit by digit
ParseEther(balance) ==
  Mul(DigitsValue(balance, 1, <<>>), Pow10(18 - FractionDigits(balance)))

\* parseTokenAmount (lines 505-518)
parseTokenAmount(balance, decimals) ==
  LET balanceFloat == ParseFloat(balance)
      multiplier == Pow10(decimals)
  IN IF NotPositive(balanceFloat) THEN <<>>
     ELSE FloorBigInt(MulDouble(balanceFloat, NumberOf(multiplier)))

\* balanceFloat <= 0 (lines 428-429 and 448-449)
BalanceIsZero(balance) == NotPositive(ParseFloat(balance))

\* BigInt(token.tokenId || "0")
TokenIdOf(tokenId) == DigitsValue(IF tokenId = <<>> THEN <<"0">> ELSE tokenId, 1, <<>>)

\* Push with the new sub-operation put in front
PushFront(list, tx) == <<tx>> \o list

\* transactions.push(tx)
Push(list, tx) == Append(list, tx)

\* SameAddress with the strings compared as they are written
SameAddressAsWritten(a, b) == a = b

\* fromAddress.toLowerCase() === toAddress.toLowerCase() (line 418)
SameAddress(a, b) == toLowerCase(a) = toLowerCase(b)

\* the addresses, token contracts and selections prepareBundledTransactions is called with
AddrOf(ch) == Prefix0x \o [i \in 1..40 |-> ch]
AddrShort == Prefix0x \o [i \in 1..39 |-> "a"]
Addresses == {AddrOf("a"), AddrOf("A"), AddrOf("b"), AddrShort, <<>>}
TokC == AddrOf("c")
NftD == AddrOf("d")
BadContract == Prefix0x \o [i \in 1..40 |-> "g"]

Token(type, contract, balance, decimals, tokenId) ==
  [type |-> type, contractAddress |-> contract, balance |-> balance,
   decimals |-> decimals, tokenId |-> tokenId]

TokenPool ==
  { Token("NATIVE", <<>>, <<"0">>, 18, <<>>),
    Token("NATIVE", <<>>, <<"1", ".", "0">>, 18, <<>>),
    Token("ERC20", TokC, <<"2", ".", "5">>, 6, <<>>),
    Token("ERC20", TokC, <<"0", ".", "2", "9">>, 2, <<>>),
    Token("ERC20", TokC, <<"5">>, 0, <<>>),
    Token("ERC20", TokC, <<"1", ".", "0">>, Undefined, <<>>),
    Token("ERC20", TokC, <<"0">>, 6, <<>>),
    Token("ERC20", BadContract, <<"0">>, 6, <<>>),
    Token("ERC20", BadContract, <<"2", ".", "5">>, 6, <<>>),
    Token("ERC721", NftD, <<"1">>, Undefined, <<"7">>),
    Token("ERC721", NftD, <<"0">>, Undefined, <<"7">>),
    Token("ERC721", NftD, <<"1">>, Undefined, <<>>),
    Token("ERC721", BadContract, <<"1">>, Undefined, <<"7">>) }

Selections == UNION {[1..n -> TokenPool] : n \in 0..MaxTokens}

\* a call prepareBundledTransactions(tokens, fromAddress, toAddress) is entered
CompileInit ==
  /\ EngineInit
  /\ ~hasEthereum /\ walletChain = Sepolia /\ approved[Sepolia] = NoAddr
  /\ tokens \in Selections
  /\ fromAddress \in Addresses /\ toAddress \in Addresses
  /\ transactions = <<>> /\ ti = 0 /\ cpc = "start" /\ thrown = "none"
  /\ origin = <<>> /\ encoded = <<>>
  /\ PreviewOff /\ InventoryOff /\ ClicksOff /\ ListingOff

CompileThrow(kind) == cpc' = "thrown" /\ thrown' = kind
compileInputs == <<tokens, fromAddress, toAddress>>

\* lines 405-422: the addresses are checked
CompileStart ==
  /\ cpc = "start"
  /\ IF fromAddress = <<>> \/ toAddress = <<>>
     THEN CompileThrow("AddressRequired") /\ ti' = ti
     ELSE IF ~isValidEthereumAddress(fromAddress) \/ ~isValidEthereumAddress(toAddress)
     THEN CompileThrow("InvalidAddress") /\ ti' = ti
     ELSE IF SameAddress(fromAddress, toAddress)
     THEN CompileThrow("SelfTransfer") /\ ti' = ti
     ELSE cpc' = "loop" /\ ti' = 1 /\ thrown' = thrown
  /\ UNCHANGED <<engine, offCompiler, compileInputs, transactions, origin, encoded>>

\* one more sub-operation is pushed, for token ti
CompilePush(tx, args) ==
  /\ transactions' = Push(transactions, tx)
  /\ origin' = Append(origin, ti)
  /\ encoded' = Append(encoded, args)
  /\ ti' = ti + 1
  /\ UNCHANGED <<cpc, thrown>>

\* continue: nothing is pushed for token ti
CompileSkip ==
  /\ ti' = ti + 1
  /\ UNCHANGED <<cpc, thrown, transactions, origin, encoded>>

CompileFail(kind) ==
  /\ CompileThrow(kind)
  /\ UNCHANGED <<ti, transactions, origin, encoded>>

NoArgs == [to |-> <<>>, from |-> <<>>, amount |-> <<>>]

\* lines 427-442
CompileNative(token) ==
  IF BalanceIsZero(token.balance) THEN CompileSkip
  ELSE CompilePush([to |-> toAddress, data |-> Prefix0x,
                    value |-> ParseEther(token.balance), gasLimit |-> 21000], NoArgs)

\* lines 443-469
CompileERC20(token) ==
  IF ~isValidEthereumAddress(token.contractAddress) THEN CompileFail("InvalidAssetAddress")
  ELSE IF BalanceIsZero(token.balance) THEN CompileSkip
  ELSE LET amount == parseTokenAmount(token.balance, DecimalsOrDefault(token.decimals))
       IN \E taken \in EncodeOutcomes({toAddress}, amount) :
            IF taken
            THEN CompilePush([to |-> token.contractAddress,
                              data |-> EncodeTransfer(toAddress, amount),
                              value |-> <<>>, gasLimit |-> 90000],
                             [to |-> toAddress, from |-> <<>>, amount |-> amount])
            ELSE CompileFail("EncodeError")

\* lines 470-490
CompileERC721(token) ==
  IF ~isValidEthereumAddress(token.contractAddress) THEN CompileFail("InvalidAssetAddress")
  ELSE LET tokenId == TokenIdOf(token.tokenId)
       IN \E taken \in EncodeOutcomes({fromAddress, toAddress}, tokenId) :
            IF taken
            THEN CompilePush([to |-> token.contractAddress,
                              data |-> EncodeTransferFrom(fromAddress, toAddress, tokenId),
                              value |-> <<>>, gasLimit |-> 120000],
                             [to |-> toAddress, from |-> fromAddress, amount |-> tokenId])
            ELSE CompileFail("EncodeError")

\* lines 424-492: one iteration of the loop over the tokens
CompileToken ==
  /\ cpc = "loop" /\ ti <= Len(tokens)
  /\ IF tokens[ti].type = "NATIVE" THEN CompileNative(tokens[ti])
     ELSE IF tokens[ti].type = "ERC20" THEN CompileERC20(tokens[ti])
     ELSE CompileERC721(tokens[ti])
  /\ UNCHANGED <<engine, offCompiler, compileInputs>>

\* lines 494-499
CompileReturn ==
  /\ cpc = "loop" /\ ti > Len(tokens)
  /\ cpc' = "returned"
  /\ UNCHANGED <<engine, offCompiler, compileInputs, transactions, ti, thrown, origin, encoded>>

CompileNext == CompileStart \/ CompileToken \/ CompileReturn

CompileSpec == CompileInit /\ [][CompileNext]_vars

(* ---------------- the cost estimate ---------------- *)
\* x / Math.pow(10, 18) of a double x >= 0: the nearest double of the quotient;
\* 10^18 = 2^18 * 15625^3 is a double itself
DivideByEther(x) ==
  LET d1 == DivSmall(Shl(x.m, 100), 15625)
      d2 == DivSmall(d1.q, 15625)
      d3 == DivSmall(d2.q, 15625)
  IN RoundToDouble(d3.q, x.e - 118, d1.r # 0 \/ d2.r # 0 \/ d3.r # 0)

\* the decimal digits of a bigint, <<>> for 0
RECURSIVE DecimalChars(_)
DecimalChars(n) ==
  IF n = <<>> THEN <<>>
  ELSE DecimalChars(DivSmall(n, 10).q) \o <<Digits[DivSmall(n, 10).r + 1]>>

\* s with zeros in front up to n characters
PadLeft(s, n) == IF Len(s) >= n THEN s ELSE [i \in 1..(n - Len(s)) |-> "0"] \o s

\* n.toString() of a bigint
BigIntToString(n) == PadLeft(DecimalChars(n), 1)

\* x.toFixed(6) of a double 0 <= x < 10^21: the integer n nearest to x * 10^6,
\* the larger one of two, written with the point before its last six digits
ToFixed6(x) ==
  LET scaled == Mul(x.m, Pow10(6))
      n == IF x.e >= 0 THEN Shl(scaled, x.e)
           ELSE Shr(Add(Shl(scaled, 1), Shl(<<1>>, 0 - x.e)), 1 - x.e)
      d == PadLeft(DecimalChars(n), 7)
  IN SubSeq(d, 1, Len(d) - 6) \o <<".">> \o SubSeq(d, Len(d) - 5, Len(d))

\* the gas one sub-operation adds (lines 530-543)
GasOf(tx) ==
  IF tx.data = Prefix0x THEN 21000
  ELSE IF StartsWith(tx.data, SelTransferChars) THEN 65000
  ELSE IF StartsWith(tx.data, SelTransferFromChars) THEN 85000
  ELSE 50000

RECURSIVE GasFrom(_, _)
GasFrom(txs, k) == IF k > Len(txs) THEN 0 ELSE GasOf(txs[k]) + GasFrom(txs, k + 1)

\* estimateGasForBundle (lines 523-554)
estimateGasForBundle(txs) == 21000 + GasFrom(txs, 1) + 150000

\* n gwei, in wei
Gwei(n) == Mul(BigInt(n), Pow10(9))

\* a last resort that costs nothing
FreeGasPrice == <<>>

\* BigInt("20000000000") (line 961)
DefaultGasPrice == Gwei(20)

\* the tail of calculateEstimatedCost (lines 1057-1065)
CostString(gas, price) ==
  ToFixed6(DivideByEther(NumberOf(Mul(BigInt(gas), price))))

\* BigInt(s) of what an endpoint answered: s is taken as 0x and hexadecimal
\* digits, anything else makes BigInt throw
ParseQuantity(s) ==
  IF StartsWith(s, Prefix0x) /\ Len(s) > 2 /\ \A i \in 3..Len(s) : IsHexChar(s[i])
  THEN [ok |-> TRUE, value |-> FromHex(SubSeq(s, 3, Len(s)))]
  ELSE [ok |-> FALSE, value |-> <<>>]

\* what publicClient.getGasPrice() resolves to when it does
ViemAnswers == {<<>>, Gwei(1)}
\* what eth_gasPrice is answered with, by the wallet or by an endpoint
HexAnswers == { <<"0", "x", "0">>, <<"0", "x">>,
                <<"0", "x", "7", "7", "3", "5", "9", "4", "0", "0">> }

\* RPC_URLS[chainId] || RPC_URLS[11155111] (line 1008)
RPC_URLS(c) ==
  IF c = Mainnet THEN <<"llamarpc", "ankr", "publicnode">>
  ELSE IF c = Flow THEN <<"onflow">>
  ELSE <<"drpc", "publicnode-sepolia", "rpc.sepolia", "infura", "rpc2.sepolia">>

\* this.currentChain?.id || 11155111 (line 1007)
GasPriceChain == OrElse(currentChain, Sepolia)

\* the methods array of getCurrentGasPrice with the wallet left out
AfterMethodSkipping(m) == IF m = "viem" THEN "rpc" ELSE "default"

\* the for loop over the methods array (lines 941-958), the final fallback after it
AfterMethod(m) ==
  IF m = "viem" THEN "ethereum" ELSE IF m = "ethereum" THEN "rpc" ELSE "default"

(* ---------------- the viewer: selection and handlePreviewBundle ---------------- *)
\* the tokens the viewer lists
ViewerTokens ==
  << Token("NATIVE", <<>>, <<"1", ".", "0">>, 18, <<>>),
     Token("ERC20", TokC, <<"2", ".", "5">>, 6, <<>>),
     Token("ERC721", NftD, <<"1">>, Undefined, <<"7">>),
     Token("ERC20", BadContract, <<"2", ".", "5">>, 6, <<>>) >>

\* what the user types as destination
Destinations == {AddrOf("a"), AddrOf("b"), AddrShort}

\* tokens.filter((token) => token.selected) (part_002 line 2217)
RECURSIVE SelectedFrom(_)
SelectedFrom(i) ==
  IF i > Len(ViewerTokens) THEN <<>>
  ELSE (IF i \in selected THEN <<ViewerTokens[i]>> ELSE <<>>) \o SelectedFrom(i + 1)
selectedTokens == SelectedFrom(1)

\* the viewer with a wallet connected and its tokens listed; the manager's
\* clients are those the constructor made, or none yet
PreviewInit ==
  /\ EngineInit
  /\ walletChain \in {Mainnet, Sepolia} /\ ~isAmbire /\ approved[Sepolia] = NoAddr
  /\ CompilerOff /\ InventoryOff /\ ClicksOff /\ ListingOff
  /\ selected = {} /\ connectedAddress = AddrOf("a") /\ destinationAddress = <<>>
  /\ bundlePreview = NoPreview /\ showPreview = FALSE /\ viewError = "none"
  /\ ppc = "idle" /\ estimateRequested = FALSE /\ scamAnswer = "none"
  /\ totalGas = 0 /\ gpc = "off" /\ rpcIdx = 0 /\ tried = <<>>
  /\ gasPrice = <<>> /\ estimatedCost = <<>>

engineButClients == <<wallet, targetChainId, ctorPending, viewer, pc, inv, locals,
                      chainState, ghosts, chainRead, result>>

\* generateTokenId (part_002 lines 1404-1412)
generateTokenId(token, networkId) ==
  IF token.type = "NATIVE" THEN <<"n", "a", "t", "i", "v", "e", "-", networkId>>
  ELSE IF token.type = "ERC721" /\ token.tokenId # <<>>
  THEN token.contractAddress \o <<"-">> \o token.tokenId
  ELSE token.contractAddress

\* handleTokenSelection (part_002 lines 2204-2211) on the list of one network: the
\* box of one token is ticked or unticked, and with it every token of the same id
HandleTokenSelection ==
  /\ ppc = "idle"
  /\ \E i \in 1..Len(ViewerTokens) :
       LET same == {j \in 1..Len(ViewerTokens) :
                     generateTokenId(ViewerTokens[j], Sepolia)
                       = generateTokenId(ViewerTokens[i], Sepolia)}
       IN selected' = IF i \in selected THEN selected \ same ELSE selected \cup same
  /\ UNCHANGED <<offPreview, connectedAddress, destinationAddress, bundlePreview, showPreview,
                 viewError, ppc, estimateRequested, scamAnswer, estimator>>

\* the destination input, offered while tokens are selected and no preview is shown
SetDestinationAddress ==
  /\ ppc = "idle" /\ selected # {} /\ ~showPreview
  /\ \E a \in Destinations \ {destinationAddress} : destinationAddress' = a
  /\ UNCHANGED <<offPreview, selected, connectedAddress, bundlePreview, showPreview,
                 viewError, ppc, estimateRequested, scamAnswer, estimator>>

\* the Cancel button of the preview: setShowPreview(false)
CancelPreview ==
  /\ ppc = "idle" /\ showPreview /\ bundlePreview # NoPreview
  /\ showPreview' = FALSE
  /\ UNCHANGED <<offPreview, form, bundlePreview, viewError, ppc, estimateRequested, scamAnswer, estimator>>

\* token.isScam as ScamDetector.analyzeTokenList left it (part_002 line 2138): the
\* NFT of the list is flagged
isScam(i) == ViewerTokens[i].type = "ERC721"

\* selectedTokens.filter((token) => token.isScam) (part_002 line 2235), as places
selectedScamTokens == {i \in selected : isScam(i)}

\* Proceeds with the answer to the warning not looked at
ProceedsAnyway(answer) == TRUE

\* handlePreviewBundle goes on unless the scam warning was declined
\* (part_002 lines 2242-2244)
Proceeds(answer) == answer # "no"

\* handlePreviewBundle up to its call of prepareBundledTransactions (part_002 lines
\* 2223-2257); the button is offered while tokens are selected, a destination is
\* typed and no preview is shown
PreviewBegin ==
  /\ ppc = "idle" /\ selected # {} /\ ~showPreview /\ destinationAddress # <<>>
  /\ IF ~isValidEthereumAddress(destinationAddress)
     THEN /\ viewError' = "InvalidDestination"
          /\ scamAnswer' = "none"
          /\ UNCHANGED <<compiler, ppc, estimateRequested>>
     ELSE IF Len(selectedTokens) = 0
     THEN /\ viewError' = "NoSelection"
          /\ scamAnswer' = "none"
          /\ UNCHANGED <<compiler, ppc, estimateRequested>>
     ELSE \E answer \in (IF selectedScamTokens # {} THEN {"yes", "no"} ELSE {"none"}) :
            /\ scamAnswer' = answer
            /\ IF Proceeds(answer)
               THEN /\ viewError' = "none"
                    /\ ppc' = "compile"
                    /\ estimateRequested' = FALSE
                    /\ tokens' = selectedTokens
                    /\ fromAddress' = connectedAddress /\ toAddress' = destinationAddress
                    /\ transactions' = <<>> /\ ti' = 0 /\ cpc' = "start" /\ thrown' = "none"
                    /\ origin' = <<>> /\ encoded' = <<>>
               ELSE UNCHANGED <<compiler, ppc, estimateRequested, viewError>>
  /\ UNCHANGED <<engine, offViewer, form, bundlePreview, showPreview, estimator>>

\* the compiler's variables once the call is over
CompilerLeft ==
  /\ tokens' = <<>> /\ fromAddress' = <<>> /\ toAddress' = <<>>
  /\ transactions' = <<>> /\ ti' = 0 /\ cpc' = "off" /\ thrown' = "none"
  /\ origin' = <<>> /\ encoded' = <<>>

\* a catch that leaves the stored preview as it is
AfterCatchKept(stored) == stored

\* setBundlePreview(null) in the catch (part_002 line 2303)
AfterCatch(stored) == NoPreview

\* the catch of handlePreviewBundle (part_002 lines 2298-2305)
PreviewCatch ==
  /\ ppc = "compile" /\ cpc = "thrown"
  /\ viewError' = "PreparationFailed"
  /\ bundlePreview' = AfterCatch(bundlePreview)
  /\ showPreview' = FALSE
  /\ ppc' = "idle"
  /\ CompilerLeft
  /\ UNCHANGED <<engine, offViewer, form, estimateRequested, scamAnswer, estimator>>

\* part_002 lines 2280-2285: estimateGasForBundle answered, calculateEstimatedCost
\* is entered and asks getCurrentGasPrice
PreviewEstimateGas ==
  /\ ppc = "compile" /\ cpc = "returned"
  /\ totalGas' = estimateGasForBundle(transactions)
  /\ estimateRequested' = TRUE
  /\ ppc' = "cost" /\ gpc' = "viem" /\ tried' = <<>>
  /\ UNCHANGED <<engine, offViewer, compiler, form, bundlePreview, showPreview, viewError,
                 scamAnswer, rpcIdx, gasPrice, estimatedCost>>

\* one method of getCurrentGasPrice ended: with a price above 0 it is returned,
\* otherwise the loop goes on (lines 947-957)
MethodEnded(m, ok, price) ==
  /\ tried' = Append(tried, [tier |-> m, url |-> 0, ok |-> ok, price |-> price])
  /\ IF ok /\ price # <<>>
     THEN gpc' = "done" /\ gasPrice' = price
     ELSE gpc' = AfterMethod(m) /\ gasPrice' = gasPrice
  /\ rpcIdx' = IF AfterMethod(m) = "rpc" THEN 1 ELSE rpcIdx

priceFrame == <<engineButClients, offViewer, compiler, form, bundlePreview, showPreview,
                viewError, ppc, estimateRequested, scamAnswer, totalGas, estimatedCost>>

\* getGasPriceFromViem (lines 969-984)
GasPriceFromViem ==
  /\ ppc = "cost" /\ gpc = "viem"
  /\ \E ok \in BOOLEAN :
       LET cl == IF pubChain = 0 THEN InitializeClients(ok, walletChain)
                 ELSE <<walletClient, currentChain, pubChain>>
       IN /\ SetClients(cl)
          /\ IF cl[3] = 0 THEN MethodEnded("viem", FALSE, <<>>)
             ELSE \/ MethodEnded("viem", FALSE, <<>>)
                  \/ \E p \in ViemAnswers : MethodEnded("viem", TRUE, p)
  /\ UNCHANGED priceFrame

\* getGasPriceFromEthereum (lines 989-1001)
GasPriceFromEthereum ==
  /\ ppc = "cost" /\ gpc = "ethereum"
  /\ IF ~hasEthereum THEN MethodEnded("ethereum", FALSE, <<>>)
     ELSE \/ MethodEnded("ethereum", FALSE, <<>>)
          \/ \E s \in HexAnswers :
               MethodEnded("ethereum", ParseQuantity(s).ok, ParseQuantity(s).value)
  /\ UNCHANGED <<priceFrame, clients>>

\* getGasPriceFromMultipleRPCs (lines 1006-1045): one endpoint is asked; result =
\* the response was ok and carried a result
GasPriceFromRpc ==
  /\ ppc = "cost" /\ gpc = "rpc" /\ rpcIdx <= Len(RPC_URLS(GasPriceChain))
  /\ \/ \E s \in HexAnswers :
          LET q == ParseQuantity(s)
          IN /\ tried' = Append(tried, [tier |-> "rpc", url |-> rpcIdx, ok |-> q.ok,
                                        price |-> q.value])
             /\ IF q.ok
                THEN IF q.value # <<>>
                     THEN gpc' = "done" /\ gasPrice' = q.value /\ rpcIdx' = rpcIdx
                     ELSE gpc' = AfterMethod("rpc") /\ gasPrice' = gasPrice /\ rpcIdx' = rpcIdx
                ELSE rpcIdx' = rpcIdx + 1 /\ UNCHANGED <<gpc, gasPrice>>
     \/ /\ tried' = Append(tried, [tier |-> "rpc", url |-> rpcIdx, ok |-> FALSE,
                                   price |-> <<>>])
        /\ rpcIdx' = rpcIdx + 1
        /\ UNCHANGED <<gpc, gasPrice>>
  /\ UNCHANGED <<priceFrame, clients>>

\* line 1044: every endpoint failed, the method throws and the loop is over
GasPriceRpcExhausted ==
  /\ ppc = "cost" /\ gpc = "rpc" /\ rpcIdx > Len(RPC_URLS(GasPriceChain))
  /\ gpc' = AfterMethod("rpc")
  /\ UNCHANGED <<priceFrame, clients, rpcIdx, tried, gasPrice>>

\* lines 960-963: the final fallback
GasPriceDefault ==
  /\ ppc = "cost" /\ gpc = "default"
  /\ tried' = Append(tried, [tier |-> "default", url |-> 0, ok |-> TRUE,
                             price |-> DefaultGasPrice])
  /\ gasPrice' = DefaultGasPrice
  /\ gpc' = "done"
  /\ UNCHANGED <<priceFrame, clients, rpcIdx>>

\* lines 1057-1065: calculateEstimatedCost returns the cost string
CalculateEstimatedCost ==
  /\ ppc = "cost" /\ gpc = "done"
  /\ estimatedCost' = CostString(totalGas, gasPrice)
  /\ ppc' = "store"
  /\ UNCHANGED <<engine, offViewer, compiler, form, bundlePreview, showPreview, viewError,
                 estimateRequested, scamAnswer, totalGas, gpc, rpcIdx, tried, gasPrice>>

\* part_002 lines 2287-2296: the preview is stored and shown
PreviewStore ==
  /\ ppc = "store"
  /\ bundlePreview' = [transactions |-> transactions,
                       totalGasEstimate |-> BigIntToString(BigInt(totalGas)),
                       estimatedCost |-> estimatedCost]
  /\ showPreview' = TRUE
  /\ ppc' = "idle"
  /\ CompilerLeft
  /\ totalGas' = 0 /\ gpc' = "off" /\ rpcIdx' = 0 /\ tried' = <<>>
  /\ gasPrice' = <<>> /\ estimatedCost' = <<>>
  /\ UNCHANGED <<engine, offViewer, form, viewError, estimateRequested, scamAnswer>>

\* handleExecuteBundle up to its call of executeEIP7702Bundle(bundlePreview)
\* (part_002 lines 2338-2367), the confirm answered yes; the button is there while
\* the preview is shown
ExecuteBegin ==
  /\ ppc = "idle" /\ showPreview /\ bundlePreview # NoPreview
  /\ ppc' = "execute"
  /\ viewError' = "none"
  /\ UNCHANGED <<engine, compiler, offViewer, form, bundlePreview, showPreview,
                 estimateRequested, scamAnswer, estimator>>

\* handleExecuteBundle after execute returned (ok) or threw (part_002 lines 2369-2393)
ExecuteEnd ==
  /\ ppc = "execute"
  /\ ppc' = "idle"
  /\ \E ok \in BOOLEAN :
       IF ok
       THEN /\ selected' = {} /\ destinationAddress' = <<>>
            /\ showPreview' = FALSE /\ bundlePreview' = NoPreview
            /\ viewError' = viewError
       ELSE /\ viewError' = "ExecuteFailed"
            /\ UNCHANGED <<selected, destinationAddress, showPreview, bundlePreview>>
  /\ UNCHANGED <<engine, compiler, offViewer, connectedAddress, estimateRequested, scamAnswer,
                 estimator>>

PreviewNext ==
  \/ ExecuteBegin
  \/ ExecuteEnd
  \/ HandleTokenSelection
  \/ SetDestinationAddress
  \/ CancelPreview
  \/ PreviewBegin
  \/ CompileStart
  \/ CompileToken
  \/ CompileReturn
  \/ PreviewCatch
  \/ PreviewEstimateGas
  \/ GasPriceFromViem
  \/ GasPriceFromEthereum
  \/ GasPriceFromRpc
  \/ GasPriceRpcExhausted
  \/ GasPriceDefault
  \/ CalculateEstimatedCost
  \/ PreviewStore

PreviewSpec == PreviewInit /\ [][PreviewNext]_vars

(* ---------------- the viewer's inventory: fetchERC20Tokens ---------------- *)
\* x > y of two doubles that are not negative
DoubleGreater(x, y) ==
  LET e == IF x.e < y.e THEN x.e ELSE y.e
      a == Shl(x.m, x.e - e)
      b == Shl(y.m, y.e - e)
  IN \/ Len(a) > Len(b)
     \/ /\ Len(a) = Len(b)
        /\ \E i \in 1..Len(a) : a[i] > b[i] /\ \A j \in (i + 1)..Len(a) : a[j] = b[j]

\* what the direct balance reads of the known tokens yield: fungible tokens, a
\* zero balance included (part_002 lines 1415-1456)
DirectPool ==
  { Token("ERC20", TokC, <<"0", ".", "0", "0", "0", "0", "0", "0">>, 6, <<>>),
    Token("ERC20", TokC, <<"2", ".", "5", "0", "0", "0", "0", "0">>, 6, <<>>),
    Token("ERC20", AddrOf("e"), <<"1", ".", "0", "0", "0", "0", "0", "0">>, 18, <<>>) }

\* what the token list of the explorer yields once mapped (part_002 lines 1714-1733)
ApiPool ==
  { Token("ERC20", TokC, <<"0">>, 6, <<>>),
    Token("ERC20", TokC, <<"2", ".", "5", "0", "0", "0">>, 6, <<>>),
    Token("ERC721", NftD, <<"1">>, Undefined, <<"7">>),
    Token("ERC721", NftD, <<"1">>, Undefined, <<"8">>) }

SourceLists(pool) == UNION {[1..n -> pool] : n \in 0..MaxTokens}

\* fetchERC20Tokens holds the answers of its two sources (part_002 line 1742)
InventoryInit ==
  /\ EngineInit
  /\ ~hasEthereum /\ walletChain = Sepolia /\ approved[Sepolia] = NoAddr
  /\ CompilerOff /\ PreviewOff /\ ClicksOff /\ ListingOff
  /\ directTokens \in SourceLists(DirectPool)
  /\ apiTokens \in SourceLists(ApiPool)
  /\ uniqueTokens = <<>> /\ mi = 1 /\ mpc = "merge" /\ finalTokens = <<>>

\* [...directTokens, ...apiTokens]
allTokens == directTokens \o apiTokens

\* token.contractAddress.toLowerCase() (part_002 line 1746)
MergeKey(token) == toLowerCase(token.contractAddress)

\* uniqueTokens.get(key): the place of the entry in the Map, 0 when there is none
MapPlace(map, key) ==
  IF \E k \in 1..Len(map) : map[k].key = key
  THEN CHOOSE k \in 1..Len(map) : map[k].key = key
  ELSE 0

\* uniqueTokens.set(key, token): a new key goes last, a known key keeps its place
MapSet(map, key, token) ==
  IF MapPlace(map, key) = 0 THEN Append(map, [key |-> key, value |-> token])
  ELSE [map EXCEPT ![MapPlace(map, key)] = [key |-> key, value |-> token]]

\* one turn of the forEach (part_002 lines 1745-1753)
MergeToken ==
  /\ mpc = "merge" /\ mi <= Len(allTokens)
  /\ LET token == allTokens[mi]
         key == MergeKey(token)
         place == MapPlace(uniqueTokens, key)
     IN uniqueTokens' =
          IF place = 0 \/ DoubleGreater(ParseFloat(token.balance),
                                        ParseFloat(uniqueTokens[place].value.balance))
          THEN MapSet(uniqueTokens, key, token)
          ELSE uniqueTokens
  /\ mi' = mi + 1
  /\ UNCHANGED <<offInventory, directTokens, apiTokens, mpc, finalTokens>>

\* Array.from(uniqueTokens.values()).filter(...) (part_002 line 1756), returned
MergeReturn ==
  /\ mpc = "merge" /\ mi > Len(allTokens)
  /\ finalTokens' =
       LET values == [k \in 1..Len(uniqueTokens) |-> uniqueTokens[k].value]
           Held(token) == ~NotPositive(ParseFloat(token.balance))
       IN SelectSeq(values, Held)
  /\ mpc' = "returned"
  /\ UNCHANGED <<offInventory, directTokens, apiTokens, uniqueTokens, mi>>

InventoryNext == MergeToken \/ MergeReturn

InventorySpec == InventoryInit /\ [][InventoryNext]_vars

(* ---------------- the viewer's handleExecuteBundle, click by click ---------------- *)
\* a preview as handlePreviewBundle stores it
StoredPreview ==
  [transactions |-> <<[to |-> AddrOf("b"), data |-> Prefix0x,
                       value |-> ParseEther(<<"1", ".", "0">>), gasLimit |-> 21000]>>,
   totalGasEstimate |-> <<"1", "9", "2", "0", "0", "0">>,
   estimatedCost |-> <<"0", ".", "0", "0", "3", "8", "4", "0">>]

\* the viewer showing a preview, its Execute button not yet clicked
ClicksInit ==
  /\ EngineInit
  /\ hasEthereum /\ ~isAmbire /\ walletChain = Sepolia /\ approved[Sepolia] = NoAddr
  /\ CompilerOff /\ InventoryOff /\ ListingOff
  /\ selected = {1} /\ connectedAddress = AddrOf("a") /\ destinationAddress = AddrOf("b")
  /\ bundlePreview = StoredPreview /\ showPreview = TRUE /\ viewError = "none"
  /\ ppc = "idle" /\ estimateRequested = TRUE /\ scamAnswer = "none"
  /\ totalGas = 0 /\ gpc = "off" /\ rpcIdx = 0 /\ tried = <<>>
  /\ gasPrice = <<>> /\ estimatedCost = <<>>
  /\ ClicksOff

clickFrame == <<engine, compiler, inventory, listing, ppc, estimateRequested, scamAnswer, estimator, connectedAddress>>

\* the Execute button is clicked (part_002 line 1088: shown with the preview,
\* disabled={isTransferring}); the call waits for checkEIP7702Support (line 849)
ClickExecute(h) ==
  /\ hpc[h] = "off"
  /\ showPreview /\ bundlePreview # NoPreview /\ ~isTransferring
  /\ hpc' = [hpc EXCEPT ![h] = "support"]
  /\ UNCHANGED <<clickFrame, selected, destinationAddress, bundlePreview, showPreview,
                 viewError, isTransferring, outstanding>>

\* part_002 lines 851-869: the check answered, the user is asked to confirm; with
\* a yes setIsTransferring(true) and executeEIP7702Bundle(bundlePreview) is called
ConfirmExecute(h) ==
  /\ hpc[h] = "support"
  /\ \E confirmBatch \in BOOLEAN :
       IF confirmBatch
       THEN /\ isTransferring' = TRUE
            /\ viewError' = "none"
            /\ hpc' = [hpc EXCEPT ![h] = "executing"]
       ELSE /\ hpc' = [hpc EXCEPT ![h] = "off"]
            /\ UNCHANGED <<isTransferring, viewError>>
  /\ UNCHANGED <<clickFrame, selected, destinationAddress, bundlePreview, showPreview,
                 outstanding>>

\* executeEIP7702Bundle hands the wallet a request to sign: an approval (lines 319
\* and 378), the batch call (line 800) or one sub-operation (line 893)
RequestSignature(h) ==
  /\ hpc[h] = "executing"
  /\ hpc' = [hpc EXCEPT ![h] = "signing"]
  /\ outstanding' = outstanding \cup {h}
  /\ UNCHANGED <<clickFrame, selected, destinationAddress, bundlePreview, showPreview,
                 viewError, isTransferring>>

\* the wallet answers the request: signed and sent, the receipt is awaited
\* (lines 327, 386, 813 and 906); or rejected, and executeEIP7702Bundle throws
SignatureAnswered(h) ==
  /\ hpc[h] = "signing"
  /\ \/ /\ hpc' = [hpc EXCEPT ![h] = "receipt"]
        /\ outstanding' = outstanding
     \/ /\ hpc' = [hpc EXCEPT ![h] = "threw"]
        /\ outstanding' = outstanding \ {h}
  /\ UNCHANGED <<clickFrame, selected, destinationAddress, bundlePreview, showPreview,
                 viewError, isTransferring>>

\* the receipt arrived: executeEIP7702Bundle goes on to its next request, returns
\* its hash, or throws for a reverted transaction
ReceiptArrived(h) ==
  /\ hpc[h] = "receipt"
  /\ \E to \in {"executing", "returned", "threw"} : hpc' = [hpc EXCEPT ![h] = to]
  /\ outstanding' = outstanding \ {h}
  /\ UNCHANGED <<clickFrame, selected, destinationAddress, bundlePreview, showPreview,
                 viewError, isTransferring>>

\* executeEIP7702Bundle throws before it asked for anything (no wallet client, no
\* account, a network that cannot be switched to, a failed read)
ExecuteThrowsEarly(h) ==
  /\ hpc[h] = "executing"
  /\ hpc' = [hpc EXCEPT ![h] = "threw"]
  /\ UNCHANGED <<clickFrame, selected, destinationAddress, bundlePreview, showPreview,
                 viewError, isTransferring, outstanding>>

\* part_002 lines 871-891: the selection and the preview are cleared after a
\* success, the error is shown after a failure, isTransferring is reset in both
ExecuteSettled(h) ==
  /\ hpc[h] \in {"returned", "threw"}
  /\ IF hpc[h] = "returned"
     THEN /\ selected' = {} /\ destinationAddress' = <<>>
          /\ showPreview' = FALSE /\ bundlePreview' = NoPreview
          /\ viewError' = viewError
     ELSE /\ viewError' = "ExecutionFailed"
          /\ UNCHANGED <<selected, destinationAddress, showPreview, bundlePreview>>
  /\ isTransferring' = FALSE
  /\ hpc' = [hpc EXCEPT ![h] = "off"]
  /\ UNCHANGED <<clickFrame, outstanding>>

ClicksNext ==
  \E h \in 1..MaxClicks :
    \/ ClickExecute(h)
    \/ ConfirmExecute(h)
    \/ RequestSignature(h)
    \/ SignatureAnswered(h)
    \/ ReceiptArrived(h)
    \/ ExecuteThrowsEarly(h)
    \/ ExecuteSettled(h)

ClicksSpec == ClicksInit /\ [][ClicksNext]_vars

(* ---------------- the viewer's token list: handleCheckTokens and the selection ---------------- *)
\* the networks of the selector that are modelled
ListNetworks == {Mainnet, Sepolia}

\* what the chain of network n holds for the connected address
InventoryOf(n) ==
  IF n = Mainnet
  THEN << Token("NATIVE", <<>>, <<"1", ".", "0">>, 18, <<>>),
          Token("ERC20", TokC, <<"2", ".", "5">>, 6, <<>>),
          Token("ERC721", NftD, <<"1">>, Undefined, <<"7">>) >>
  ELSE << Token("NATIVE", <<>>, <<"3", ".", "0">>, 18, <<>>),
          Token("ERC721", NftD, <<"1">>, Undefined, <<"8">>) >>

\* the list handleCheckTokens builds from what it fetched (part_002 lines 2126-2141):
\* nothing selected, the scam flag set by ScamDetector.analyzeTokenList
analyzedTokens(fetched) ==
  [i \in 1..Len(fetched) |->
     fetched[i] @@ [selected |-> FALSE, isScam |-> fetched[i].type = "ERC721"]]

\* the wallet is connected: the effect of part_002 lines 2165-2173 has called
\* handleCheckTokens for the network selected first
ListInit ==
  /\ EngineInit /\ CompilerOff /\ PreviewOff /\ InventoryOff /\ ClicksOff
  /\ tokenList = <<>> /\ selectedNetwork = Sepolia
  /\ tokenCache = [n \in ListNetworks |-> NotCached]
  /\ loads = <<[network |-> Sepolia, cache |-> NotCached, phase |-> "start"]>>
  /\ isLoading = FALSE /\ loadError = FALSE /\ clicked = NoClick

\* the NetworkSelector: setSelectedNetwork, and the effect calls handleCheckTokens
\* of this render, which sees the network and the tokenCache of this render
SetSelectedNetwork ==
  /\ Len(loads) < MaxLoads
  /\ \E n \in ListNetworks \ {selectedNetwork} :
       /\ selectedNetwork' = n
       /\ loads' = Append(loads, [network |-> n, cache |-> tokenCache[n], phase |-> "start"])
  /\ clicked' = NoClick
  /\ UNCHANGED <<offListing, tokenList, tokenCache, isLoading, loadError>>

\* handleCheckTokens up to its first fetch (part_002 lines 2091-2120), after the
\* wait of its rate limit if any: the cached list is shown, or the list is
\* cleared and the fetch begins
CheckTokensBegin(l) ==
  /\ loads[l].phase = "start"
  /\ IF loads[l].cache.cached
     THEN /\ tokenList' = loads[l].cache.list
          /\ loads' = [loads EXCEPT ![l].phase = "done"]
          /\ UNCHANGED <<isLoading, loadError>>
     ELSE /\ tokenList' = <<>>
          /\ isLoading' = TRUE /\ loadError' = FALSE
          /\ loads' = [loads EXCEPT ![l].phase = "fetching"]
  /\ clicked' = NoClick
  /\ UNCHANGED <<offListing, selectedNetwork, tokenCache>>

\* the fetches of handleCheckTokens answered or threw (part_002 lines 2122-2162)
CheckTokensEnd(l) ==
  /\ loads[l].phase = "fetching"
  /\ \/ /\ tokenList' = analyzedTokens(InventoryOf(loads[l].network))
        /\ tokenCache' = [tokenCache EXCEPT ![loads[l].network] =
                            [cached |-> TRUE,
                             list |-> analyzedTokens(InventoryOf(loads[l].network))]]
        /\ loadError' = loadError
     \/ /\ loadError' = TRUE
        /\ UNCHANGED <<tokenList, tokenCache>>
  /\ isLoading' = FALSE
  /\ loads' = [loads EXCEPT ![l].phase = "done"]
  /\ clicked' = NoClick
  /\ UNCHANGED <<offListing, selectedNetwork>>

\* handleTokenSelection that unticks every other token
handleTokenSelectionOnly(prev, tokenId, flag, networkId) ==
  [i \in 1..Len(prev) |->
     [prev[i] EXCEPT !.selected = flag /\ generateTokenId(prev[i], networkId) = tokenId]]

\* handleTokenSelection (part_002 lines 2204-2211): prev.map over the tokens
handleTokenSelection(prev, tokenId, flag, networkId) ==
  [i \in 1..Len(prev) |->
     IF generateTokenId(prev[i], networkId) = tokenId
     THEN [prev[i] EXCEPT !.selected = flag]
     ELSE prev[i]]

\* handleSelectAll (part_002 lines 2213-2215)
handleSelectAll(prev, flag) ==
  [i \in 1..Len(prev) |-> [prev[i] EXCEPT !.selected = flag]]

\* the checkbox of a listed token is set to flag (part_002 line 2677)
ClickToken ==
  /\ \E i \in 1..Len(tokenList), flag \in BOOLEAN :
       LET tokenId == generateTokenId(tokenList[i], selectedNetwork)
       IN /\ tokenList' = handleTokenSelection(tokenList, tokenId, flag, selectedNetwork)
          /\ clicked' = [op |-> "token", tokenId |-> tokenId, selected |-> flag]
  /\ UNCHANGED <<offListing, selectedNetwork, loads, tokenCache, isLoading, loadError>>

\* select all / none
ClickSelectAll ==
  /\ tokenList # <<>>
  /\ \E flag \in BOOLEAN :
       /\ tokenList' = handleSelectAll(tokenList, flag)
       /\ clicked' = [op |-> "all", tokenId |-> <<>>, selected |-> flag]
  /\ UNCHANGED <<offListing, selectedNetwork, loads, tokenCache, isLoading, loadError>>

ListNext ==
  \/ SetSelectedNetwork
  \/ \E l \in 1..Len(loads) : CheckTokensBegin(l)
  \/ \E l \in 1..Len(loads) : CheckTokensEnd(l)
  \/ ClickToken
  \/ ClickSelectAll

ListSpec == ListInit /\ [][ListNext]_vars

(* ======================= properties ======================= *)
Last(q) == q[Len(q)]
BatchSubmitted == \E k \in DOMAIN submitted : submitted[k].kind = "batch"
ApprovalMined == \E k \in DOMAIN receipts :
                   submitted[k].kind = "approve" /\ receipts[k] = "success"

\* the support check made for the preview said Supported on Sepolia, the wallet
\* was moved to Mainnet before execute, whose own check found it there, and the
\* wallet did not change network on its own afterwards
PreviewMismatch ==
  /\ previewInfo.supported /\ previewInfo.chainId = Sepolia
  /\ capChecked /\ supportInfo.chainId = Mainnet
  /\ walletSwitches = 0

\* C1: when the preview-time check reported Supported for chain 11155111 and the
\* wallet is on chain 1 when execute checks again, execute ends in failure
\* (WrongNetwork) and sends nothing to the wallet.
C1_MismatchAborts ==
  PreviewMismatch => /\ submitted = <<>>
                     /\ pc = "done" => result.status = "fail"

\* C2: whenever a chain-mutating request (approval, batch call, sequential
\* transaction) is submitted, the wallet is on the chain the execution targets.
C2_SubmitsOnTargetChain ==
  \A k \in DOMAIN submitted : submitted[k].chain = submitted[k].target

\* C3: when ensureCorrectNetwork reports failure, execute is over with the
\* WrongNetwork failure and no signing request was issued, in both paths.
C3_SwitchFailureAborts ==
  networkSwitched = "false" =>
    /\ pc = "done"
    /\ result.status = "fail" /\ result.kind = "WrongNetwork"
    /\ submitted = <<>>

C3_Witness ==
  /\ networkSwitched = "false" /\ pc = "done" /\ path = "atomic"
  /\ switchLog = <<"wallet_switchEthereumChain", "wallet_setNetwork", "wallet_addEthereumChain">>

\* C4: an approval is submitted for a sub-operation only when the allowance read
\* for it was below the amount (ERC-20) or the approved address read was not the
\* bundle contract (ERC-721); with sufficient allowance in place no approval is sent.
C4_ApproveOnlyWhenInsufficient ==
  \A k \in DOMAIN submitted :
    submitted[k].kind = "approve" =>
      LET tx == bundle[submitted[k].idx]
          rd == submitted[k].read
      IN IF IsERC20Tx(tx) THEN rd.allowance < tx.data[3]
         ELSE rd.approved # submitted[k].args[1]

\* a second execution whose reads found the allowance left by the first one
\* (exactly the amount) and the approval of the NFT: it went on to the batch call
C4_Witness ==
  /\ inv = 2 /\ pc = "a_wait" /\ Len(bundle) = 3
  /\ reads = {2, 3}
  /\ Len(submitted) = 1 /\ submitted[1].kind = "batch"
  /\ allowance[pubChain][supportInfo.contractAddress] = 2

\* C5: once an approval was mined with a reverted status, the batch call is not
\* submitted and execute ends with AllowanceApprovalFailed.
C5_RevertedApprovalAborts ==
  (\E k \in DOMAIN receipts : submitted[k].kind = "approve" /\ receipts[k] = "reverted")
    => /\ ~BatchSubmitted
       /\ pc = "done" => result.kind = "AllowanceApprovalFailed"

\* C6: in the sequential path the k-th request is the send of sub-operation k, and
\* it is made only after the receipts of all earlier ones came back with success;
\* so nothing is submitted after a sub-operation erred or reverted.
C6_SequentialInOrder ==
  path = "seq" =>
    \A k \in DOMAIN submitted :
      /\ submitted[k].kind = "send" /\ submitted[k].idx = k
      /\ \A j \in 1..(k - 1) : j <= Len(receipts) /\ receipts[j] = "success"

C6_Witness ==
  /\ path = "seq" /\ pc = "done" /\ Len(bundle) = 3
  /\ Len(submitted) = 2 /\ receipts = <<"success", "reverted">>
  /\ result.status = "fail"

\* C7: the failure of sub-operation i in the sequential path carries the index i
\* and the hashes of the i-1 transactions that succeeded before it.
C7_FailureCarriesHashes ==
  (pc = "done" /\ path = "seq" /\ result.status = "fail" /\ result.index > 0) =>
    /\ result.index = idx
    /\ result.hashes = [j \in 1..(idx - 1) |-> submitted[j].hash]

\* C8: when the receipt of the batch call is not a success, execute fails with
\* RevertedOnChain and the failure carries the hash of that transaction.
C8_RevertCarriesHash ==
  (pc = "done" /\ path = "atomic" /\ BatchSubmitted
     /\ Len(receipts) = Len(submitted) /\ Last(receipts) = "reverted") =>
    /\ result.kind = "RevertedOnChain"
    /\ result.hash = Last(submitted).hash

\* C9 as stated: an atomic execution that ends in failure without its transfers
\* leaves nothing of itself on chain.
C9_NothingLeftOnChain ==
  (path = "atomic" /\ pc = "done" /\ result.status = "fail" /\ applied = {})
    => ~ApprovalMined

\* C9 amended: in the atomic path the transfers of the sub-operations are applied
\* all together or not at all, and not at all when the batch call reverted;
\* approvals mined before a failure stay on chain.
C9_TransfersAllOrNothing ==
  path = "atomic" =>
    /\ applied \in {{}, 1..Len(bundle)}
    /\ (BatchSubmitted /\ Len(receipts) = Len(submitted) /\ Last(receipts) = "reverted")
         => applied = {}

C9_Witness ==
  /\ path = "atomic" /\ pc = "done" /\ result.status = "fail"
  /\ ApprovalMined /\ BatchSubmitted /\ Last(receipts) = "reverted" /\ applied = {}

\* C10: every execution makes its own capability check before it takes a path,
\* and the batch call is submitted only after the allowance (approval) of every
\* fungible and non-fungible sub-operation was read in this same execution.
C10_FreshChecks ==
  /\ path # "none" => capChecked
  /\ BatchSubmitted =>
       \A i \in 1..Len(bundle) : ~IsNativeTx(bundle[i]) => i \in reads

\* a re-invocation after a failed one that read both allowances again
C10_Witness ==
  /\ inv = 2 /\ BatchSubmitted /\ Len(bundle) = 3 /\ reads = {2, 3}
  /\ \E k \in DOMAIN submitted : submitted[k].kind = "approve"

\* C11: an execution that completes normally returns the hash of a transaction
\* it submitted, whatever the bundle (zero sub-operations included) and the path.
C11_ReturnsSubmittedHash ==
  (pc = "done" /\ result.status = "ok") =>
    \E k \in DOMAIN submitted : submitted[k].hash = result.hash

(* ---------------- properties of prepareBundledTransactions ---------------- *)
\* the balance string denotes zero
IsZero(balance) == DigitsValue(balance, 1, <<>>) = <<>>

\* floor(balance * 10^d), in integers
ExactScaled(balance, d) ==
  LET n == DigitsValue(balance, 1, <<>>)
      f == FractionDigits(balance)
  IN IF d >= f THEN Mul(n, Pow10(d - f)) ELSE DivSmall(n, 10 ^ (f - d)).q

Zeros(n) == [i \in 1..n |-> "0"]
OriginOf(k) == tokens[origin[k]]

\* C12: called with one and the same valid address as owner and as recipient
\* (written in whatever case), compile throws SelfTransfer and has no
\* sub-operation, whatever the asset list, the empty one included.
C12_SelfTransferThrows ==
  (/\ cpc # "start"
   /\ isValidEthereumAddress(fromAddress)
   /\ toLowerCase(fromAddress) = toLowerCase(toAddress))
    => cpc = "thrown" /\ thrown = "SelfTransfer" /\ transactions = <<>>

C12_Witness ==
  /\ cpc = "thrown" /\ thrown = "SelfTransfer"
  /\ fromAddress = toAddress /\ Len(tokens) >= 1

\* C13: no sub-operation is ever emitted for an asset whose balance is zero,
\* of whatever kind (Native, Fungible or NonFungible).
C13_NoSubOpForZeroBalance ==
  \A k \in DOMAIN origin : ~IsZero(OriginOf(k).balance)

\* the sub-operation tx has the destination and the kind of call of token t
MadeFor(tx, t) ==
  IF t.type = "NATIVE" THEN tx.to = toAddress /\ tx.data = Prefix0x
  ELSE /\ tx.to = t.contractAddress
       /\ StartsWith(tx.data, IF t.type = "ERC20" THEN SelTransferChars
                              ELSE SelTransferFromChars)

\* C14: what compile returns is, in the order of the selection, one
\* sub-operation for each selected asset that the zero-balance rule (Native and
\* Fungible with balance zero) does not skip: none dropped, doubled or moved.
C14_StableSubsequence ==
  cpc = "returned" =>
    /\ Len(transactions) <= Len(tokens) /\ Len(origin) = Len(transactions)
    /\ \A k \in 1..(Len(origin) - 1) : origin[k] < origin[k + 1]
    /\ {origin[k] : k \in DOMAIN origin} =
         {i \in DOMAIN tokens : ~(tokens[i].type # "ERC721" /\ IsZero(tokens[i].balance))}
    /\ \A k \in DOMAIN transactions : MadeFor(transactions[k], OriginOf(k))

C14_Witness ==
  /\ cpc = "returned" /\ Len(transactions) >= 2
  /\ transactions[1].to # transactions[2].to

\* C15: compile called with an empty selection does not return, it fails.
C15_EmptySelectionFails ==
  tokens = <<>> => cpc # "returned"

\* C16: a Fungible asset whose balance is zero never makes compile fail with
\* InvalidAssetAddress, since it is skipped before its address is looked at.
C16_ZeroBalanceFungibleSkipped ==
  (cpc = "thrown" /\ thrown = "InvalidAssetAddress") =>
    ~(tokens[ti].type = "ERC20" /\ IsZero(tokens[ti].balance))

\* C17: the amount in the call-data of a Fungible sub-operation is
\* floor(balance * 10^decimals), decimals being 18 only when unspecified.
C17_AmountExact ==
  \A k \in DOMAIN transactions :
    OriginOf(k).type = "ERC20" =>
      DecodeTransfer(transactions[k].data).amount =
        ExactScaled(OriginOf(k).balance,
                    IF OriginOf(k).decimals = Undefined THEN 18 ELSE OriginOf(k).decimals)

\* C18: read back the way the execution engine reads it, the call-data of a
\* Fungible sub-operation gives the recipient and the amount compile encoded,
\* that of a NonFungible one the owner, the recipient and the token id.
C18_RoundTrip ==
  \A k \in DOMAIN transactions :
    /\ OriginOf(k).type = "ERC20" =>
         /\ DecodeTransfer(transactions[k].data).amount = encoded[k].amount
         /\ DecodeTransfer(transactions[k].data).to = toLowerCase(encoded[k].to)
    /\ OriginOf(k).type = "ERC721" =>
         /\ DecodeTransferFrom(transactions[k].data).tokenId = encoded[k].amount
         /\ DecodeTransferFrom(transactions[k].data).from = toLowerCase(encoded[k].from)
         /\ DecodeTransferFrom(transactions[k].data).to = toLowerCase(encoded[k].to)

C18_Witness ==
  /\ cpc = "returned"
  /\ \E j, k \in DOMAIN transactions :
       /\ OriginOf(j).type = "ERC20" /\ OriginOf(k).type = "ERC721"
       /\ encoded[j].amount = BigInt(2500000) /\ encoded[k].amount = BigInt(7)

\* C19: a sub-operation has the shape of its asset's kind. Native: to the
\* recipient, call-data "0x", value = the balance in base units ("1.0" gives
\* 10^18), gas hint 21000. Fungible: to the contract, value 0, call-data =
\* transfer selector, recipient word, amount word ("2.5" with 6 decimals gives
\* the word of 2500000). NonFungible: to the contract, value 0, call-data =
\* transferFrom selector, owner word, recipient word, token id word.
C19_SubOpShape ==
  \A k \in DOMAIN transactions :
    LET t == OriginOf(k)
        tx == transactions[k]
        owner == SubSeq(toLowerCase(fromAddress), 3, 42)
        recipient == SubSeq(toLowerCase(toAddress), 3, 42)
    IN IF t.type = "NATIVE"
       THEN /\ tx.to = toAddress /\ tx.data = Prefix0x /\ tx.gasLimit = 21000
            /\ tx.value = ExactScaled(t.balance, 18)
            /\ t.balance = <<"1", ".", "0">> =>
                 tx.value = DigitsValue(<<"1">> \o Zeros(18), 1, <<>>)
       ELSE IF t.type = "ERC20"
       THEN /\ tx.to = t.contractAddress /\ tx.value = <<>>
            /\ Len(tx.data) = 138
            /\ SubSeq(tx.data, 1, 10) = SelTransferChars
            /\ SubSeq(tx.data, 11, 74) = Zeros(24) \o recipient
            /\ FromHex(SubSeq(tx.data, 75, 138)) = encoded[k].amount
            /\ (t.balance = <<"2", ".", "5">> /\ t.decimals = 6) =>
                 SubSeq(tx.data, 75, 138) = Zeros(58) \o <<"2", "6", "2", "5", "a", "0">>
       ELSE /\ tx.to = t.contractAddress /\ tx.value = <<>>
            /\ Len(tx.data) = 202
            /\ SubSeq(tx.data, 1, 10) = SelTransferFromChars
            /\ SubSeq(tx.data, 11, 74) = Zeros(24) \o owner
            /\ SubSeq(tx.data, 75, 138) = Zeros(24) \o recipient
            /\ FromHex(SubSeq(tx.data, 139, 202)) = encoded[k].amount

C19_Witness ==
  /\ cpc = "returned" /\ Len(transactions) = 2
  /\ OriginOf(1).type = "NATIVE" /\ OriginOf(2).type = "ERC721"
  /\ transactions[1].value = Mul(BigInt(1000000000), BigInt(1000000000))

(* ---------------- properties of checkEIP7702Support ---------------- *)
\* C20: the check execute makes returns Supported with the table's contract
\* and the chain id exactly when the chain id the wallet reports in this call
\* is in the contract table, Unsupported with that chain id otherwise, whatever
\* chain and clients an earlier call left behind.
C20_SupportFromChainRead ==
  [][(pc = "e_check" /\ pc' # "e_check" /\ supportInfo'.chainId # 0) =>
       /\ supportInfo'.chainId = walletChain
       /\ supportInfo'.supported = (walletChain \in {Mainnet, Sepolia})
       /\ supportInfo'.contractAddress =
            (IF walletChain = Mainnet THEN "0x9eCc"
             ELSE IF walletChain = Sepolia THEN "0xB249" ELSE NoAddr)]_vars

\* the check of an execution found Mainnet supported after the check made for
\* the preview had found Sepolia supported and left its clients behind
C20_Witness ==
  /\ capChecked /\ supportInfo.supported /\ supportInfo.chainId = Mainnet
  /\ supportInfo.contractAddress = "0x9eCc"
  /\ previewInfo.supported /\ previewInfo.chainId = Sepolia

\* what the last checkEIP7702Support call returned: to execute once it made its
\* call, to the viewer's support effect before that
LastSupportResult == IF capChecked THEN supportInfo ELSE previewInfo

\* C21: checkSupport never throws; when there is no wallet to ask, or the
\* wallet's chain id request fails, it returns the Unavailable result (not
\* supported, no chain id, no contract address), and the execution that called it
\* goes on to one of its two paths
C21_UnavailableNotThrown ==
  /\ chainRead \in {"unreachable", "failed"} =>
       /\ ~LastSupportResult.supported
       /\ LastSupportResult.chainId = 0
       /\ LastSupportResult.contractAddress = NoAddr
  /\ capChecked => path \in {"atomic", "seq"}

\* the chain id request of the check made by an execution failed
C21_Witness == capChecked /\ chainRead = "failed" /\ supportInfo = NoSupport

\* C22: when the capability check made by execute yields Unavailable, execute
\* does not fail for that reason: it takes the sequential path, and whatever
\* error it ends with is one of that path
C22_UnavailableTakesSequential ==
  (capChecked /\ chainRead # "ok") =>
    /\ path = "seq"
    /\ \A k \in 1..Len(submitted) : submitted[k].kind = "send"
    /\ result.status = "fail" =>
         result.kind \in {"WrongNetwork", "NoAccounts", "SendFailed", "RevertedOnChain",
                          "ReceiptError"}

\* after an Unavailable check the execution sent a sub-operation of its own
C22_Witness ==
  /\ capChecked /\ chainRead = "failed" /\ supportInfo = NoSupport
  /\ path = "seq" /\ Len(submitted) >= 1


\* C25: once an execution of the preview has ended, in success or in failure,
\* and handleExecuteBundle has finished, the stored bundle preview is cleared
C25_PreviewDiscarded == (pc = "idle" /\ inv > 0) => ~hasPreview

\* C29: the contract a batch call is sent to is the static table's entry for the
\* chain the call is submitted on, the target chain execute verified just before
C29_BatchToContractOfTarget ==
  \A k \in 1..Len(submitted) :
    submitted[k].kind = "batch" => submitted[k].to = PECTRA_BUNDLE_CONTRACTS(submitted[k].target)


\* C30: after a failure in the atomic path the invocation submits nothing more:
\* it ends with that failure, the batch call is sent at most once and is the last
\* request, and no sub-operation is sent on its own; the sequential path is
\* entered only when the capability check did not report Supported
C30_NoSubmissionAfterAtomicFailure ==
  /\ path = "atomic" =>
       /\ supportInfo.supported
       /\ result.status = "fail" => pc = "done"
       /\ \A k \in 1..Len(submitted) :
            /\ submitted[k].kind \in {"approve", "batch"}
            /\ submitted[k].kind = "batch" => k = Len(submitted)
  /\ path = "seq" => ~supportInfo.supported

\* the atomic path failed after the wallet had accepted a request of it
C30_Witness ==
  /\ path = "atomic" /\ pc = "done" /\ result.status = "fail"
  /\ Len(submitted) >= 1


\* the sub-operations the compiler made for tokens of one type
MadeOfType(type) == Cardinality({k \in 1..Len(transactions) : tokens[origin[k]].type = type})

\* every method and endpoint asked so far gave no price above 0
AllTiersFailed == \A k \in 1..Len(tried) : tried[k].tier # "default" => tried[k].price = <<>>

\* C23: estimate never throws, for any sub-operation list: the gas aggregate (the
\* per-kind constants, the base cost and the bundle overhead) and the cost string
\* with six decimals are returned and no error is raised; when every gas-price
\* tier fails the price used is the default of 20 gwei
C23_EstimateAlwaysReturns ==
  /\ ppc \in {"cost", "store"} =>
       /\ viewError = "none" /\ cpc = "returned"
       /\ totalGas = 171000 + 21000 * MadeOfType("NATIVE") + 65000 * MadeOfType("ERC20")
                             + 85000 * MadeOfType("ERC721")
  /\ ppc = "store" =>
       /\ Len(estimatedCost) >= 8 /\ PointAt(estimatedCost) = Len(estimatedCost) - 6
       /\ gasPrice # <<>>
       /\ AllTiersFailed =>
            /\ gasPrice = Mul(BigInt(20), Pow10(9))
            /\ DigitsValue(estimatedCost, 1, <<>>) = BigInt(totalGas \div 50)

\* every tier failed and the estimate of a bundle of two sub-operations is returned
C23_Witness ==
  /\ ppc = "store" /\ AllTiersFailed /\ Len(transactions) = 2
  /\ Len(tried) = 3 + Len(RPC_URLS(GasPriceChain))

\* the place of an attempt in the order of the tiers: the primary client, the
\* wallet's provider, the endpoints in list order, the default
TierRank(t) ==
  IF t.tier = "viem" THEN 1 ELSE IF t.tier = "ethereum" THEN 2
  ELSE IF t.tier = "rpc" THEN 2 + t.url ELSE 3 + Len(RPC_URLS(GasPriceChain))

\* C24: the gas price tiers are tried strictly in order: primary client, wallet
\* provider, raw endpoints in list order, default; a tier is tried only after every
\* earlier one failed (the endpoints fail as one tier when one of them answers a
\* price that is not above 0), none is tried after one succeeded, and the price
\* returned is that of the first tier that succeeded
C24_TiersInOrder ==
  /\ \A k \in 1..Len(tried) :
       /\ k = 1 => tried[k].tier = "viem"
       /\ k > 1 =>
            /\ tried[k - 1].price = <<>>
            /\ \/ TierRank(tried[k]) = TierRank(tried[k - 1]) + 1
               \/ /\ tried[k].tier = "default" /\ tried[k - 1].tier = "rpc"
                  /\ tried[k - 1].ok
            /\ (tried[k - 1].tier = "rpc" /\ tried[k].tier = "rpc") => ~tried[k - 1].ok
  /\ gpc = "done" =>
       /\ Len(tried) >= 1
       /\ gasPrice = tried[Len(tried)].price /\ gasPrice # <<>>

\* the second endpoint is the first tier to succeed
C24_Witness ==
  /\ gpc = "done" /\ Len(tried) = 4
  /\ tried[4].tier = "rpc" /\ tried[4].url = 2 /\ gasPrice = tried[4].price

\* C26: a compile that throws blocks the preview: handlePreviewBundle ends with
\* no estimate requested, the stored preview null and nothing shown; a preview is
\* shown only when one is stored, which is done after compile and estimate
C26_CompileErrorBlocksPreview ==
  /\ cpc = "thrown" => (ppc = "compile" /\ ~estimateRequested)
  /\ viewError = "PreparationFailed" =>
       /\ ~estimateRequested
       /\ bundlePreview = NoPreview
       /\ ~showPreview
  /\ showPreview =>
       /\ bundlePreview # NoPreview /\ estimateRequested
       /\ Len(bundlePreview.totalGasEstimate) > 0 /\ Len(bundlePreview.estimatedCost) > 0

\* a compile threw for a self-transfer and handlePreviewBundle is over
C26_Witness ==
  /\ viewError = "PreparationFailed" /\ ppc = "idle"
  /\ destinationAddress = connectedAddress

\* the asset key of the specification: the contract, with the token id for a
\* non-fungible asset
AssetKey(token) ==
  IF token.type = "ERC721" THEN <<token.contractAddress, token.tokenId>>
  ELSE <<token.contractAddress>>

\* C27: the list fetchERC20Tokens returns holds at most one asset per key; two
\* non-fungible assets of one contract with different token ids are both kept;
\* of the entries of one key, one with a balance above zero is kept
C27_MergeKeepsDistinctAssets ==
  mpc = "returned" =>
    /\ \A i, j \in 1..Len(finalTokens) :
         AssetKey(finalTokens[i]) = AssetKey(finalTokens[j]) => i = j
    /\ \A k \in 1..Len(allTokens) :
         ~NotPositive(ParseFloat(allTokens[k].balance)) =>
           \E i \in 1..Len(finalTokens) :
             /\ AssetKey(finalTokens[i]) = AssetKey(allTokens[k])
             /\ ~NotPositive(ParseFloat(finalTokens[i].balance))

\* C28: at no time are two signing requests outstanding at once
C28_OneSigningRequest == Cardinality(outstanding) <= 1

(* ---------------- C31: approvals before the batch call ---------------- *)
\* the approval requests of this execution made for sub-operation i
ApprovalsFor(i) == {k \in DOMAIN submitted : submitted[k].kind = "approve" /\ submitted[k].idx = i}

\* the receipt of request k came back: the transaction was mined
Mined(k) == k <= Len(receipts) /\ receipts[k] \in {"success", "reverted"}

\* what the chain behind the public client holds is enough for sub-operation i
SufficientOnChain(i) ==
  IF IsERC20Tx(bundle[i])
  THEN allowance[pubChain][supportInfo.contractAddress] >= bundle[i].data[3]
  ELSE approved[pubChain] = supportInfo.contractAddress

\* C31: in the atomic path the batch call is submitted only after, for every
\* fungible and non-fungible sub-operation, the allowance was read and either found
\* sufficient or its approval was mined; approvals are requested in bundle order,
\* at most one per sub-operation, each one awaited before a later sub-operation is
\* read, and no allowance is read for a native sub-operation.
C31_ApprovalsBeforeBatch ==
  path = "atomic" =>
    /\ \A i \in reads : ~IsNativeTx(bundle[i])
    /\ \A k, l \in DOMAIN submitted :
         (k < l /\ submitted[k].kind = "approve" /\ submitted[l].kind = "approve")
           => submitted[k].idx < submitted[l].idx
    /\ \A k \in DOMAIN submitted :
         (submitted[k].kind = "approve" /\ ~Mined(k))
           => \A i \in reads : i <= submitted[k].idx
    /\ \A b \in DOMAIN submitted :
         submitted[b].kind = "batch" =>
           \A i \in 1..Len(bundle) :
             ~IsNativeTx(bundle[i]) =>
               /\ i \in reads
               /\ \A k \in ApprovalsFor(i) : k < b /\ Mined(k)
               /\ ApprovalsFor(i) = {} => SufficientOnChain(i)

\* the batch call of the three-asset bundle went out after the allowance of the
\* token was found sufficient and the approval of the NFT was mined
C31_Witness ==
  /\ path = "atomic" /\ Len(bundle) = 3 /\ BatchSubmitted
  /\ ApprovalsFor(2) = {} /\ ApprovalsFor(3) = {1} /\ Mined(1)
  /\ reads = {2, 3}

(* ---------------- C32: the switch strategies ---------------- *)
\* the switch requests ensureCorrectNetwork has for this wallet, in order
Strategies ==
  IF isAmbire
  THEN <<"wallet_switchEthereumChain", "wallet_setNetwork", "wallet_addEthereumChain">>
  ELSE <<"wallet_switchEthereumChain", "wallet_addEthereumChain">>

\* C32: the switch requests of one ensureCorrectNetwork call are the standard
\* switch, the wallet-specific method (for the detected wallet only) and the chain
\* registration, in this order and stopping at the first one that worked; so a
\* call that made a request and reports failure has tried all of them, the chain
\* registration last; no request is made after the call reported success.
C32_StrategiesInOrder ==
  /\ \E n \in 0..Len(Strategies) : switchLog = SubSeq(Strategies, 1, n)
  /\ (networkSwitched = "false" /\ switchLog # <<>>) => switchLog = Strategies
  /\ (networkSwitched = "true" /\ switchLog # <<>>) => pc \notin {"net_m1", "net_m2", "net_m3"}

(* ---------------- C33: the batch call ---------------- *)
\* the batch calls this execution submitted
BatchCalls == {k \in DOMAIN submitted : submitted[k].kind = "batch"}

\* the sum of the values of the first n sub-operations of the bundle
RECURSIVE ValueOfFirst(_)
ValueOfFirst(n) == IF n = 0 THEN 0 ELSE bundle[n].value + ValueOfFirst(n - 1)

\* the decimal string of the estimate the preview holds, read back as a bigint
\* (totalGas.toString() in handlePreviewBundle, BigInt(...) in line 796)
EstimateReadBack == DigitsValue(BigIntToString(BigInt(estimateGasForBundle(<<>>))), 1, <<>>)

\* C33: a successful atomic execution submitted exactly one batch call; its three
\* arrays have the length of the bundle and their i-th entries are the target, the
\* value and the call-data of the i-th sub-operation; the value of the transaction
\* is the sum of the values of all sub-operations and its gas limit is twice the
\* aggregate gas estimate of the bundle.
C33_OneBatchCall ==
  (path = "atomic" /\ pc = "done" /\ result.status = "ok") =>
    /\ Cardinality(BatchCalls) = 1
    /\ \A k \in BatchCalls :
         LET req == submitted[k]
         IN /\ Len(req.args) = Len(bundle)
            /\ \A i \in 1..Len(bundle) :
                 /\ req.args[i].to = bundle[i].to
                 /\ req.args[i].value = bundle[i].value
                 /\ req.args[i].data = bundle[i].data
            /\ req.value = ValueOfFirst(Len(bundle))
            /\ req.gas = 2 * (171000 + Cardinality({i \in 1..Len(bundle) : IsNativeTx(bundle[i])}) * 21000
                                     + Cardinality({i \in 1..Len(bundle) : IsERC20Tx(bundle[i])}) * 65000
                                     + Cardinality({i \in 1..Len(bundle) : IsERC721Tx(bundle[i])}) * 85000)
            /\ EstimateReadBack = BigInt(171000)

\* the three-asset bundle went through in one batch call carrying the native value
C33_Witness ==
  /\ path = "atomic" /\ pc = "done" /\ result.status = "ok"
  /\ Len(bundle) = 3 /\ Len(Last(submitted).args) = 3
  /\ Last(submitted).value = 1 /\ Last(submitted).gas = 684000

(* ---------------- C34: the aggregate gas estimate ---------------- *)
\* what eth_estimateGas may answer for one sub-operation; 0 = the query failed
EstimateAnswers == {0, 30000}

\* the aggregate of the specification for sub-operations txs when the chain
\* answers answers[k] for txs[k]: the chain's estimate, the constant of its kind
\* where the query failed, summed from k on
RECURSIVE TieredGasFrom(_, _, _)
TieredGasFrom(txs, answers, k) ==
  IF k > Len(txs) THEN 0
  ELSE (IF answers[k] = 0 THEN GasOf(txs[k]) ELSE answers[k]) + TieredGasFrom(txs, answers, k + 1)

\* C34: the aggregate gas estimate is the sum over the sub-operations of the
\* chain's estimate for the sub-operation, or of the constant of its kind when
\* the query failed, with the fixed margin (here the one of the code: the base of
\* 21000 and the overhead of 150000) applied to the sum, whatever the chain answers.
C34_EstimateFromChain ==
  ppc \in {"cost", "store"} =>
    \A answers \in [1..Len(transactions) -> EstimateAnswers] :
      totalGas = 21000 + TieredGasFrom(transactions, answers, 1) + 150000

(* ---------------- C35: the scam warning ---------------- *)
\* the sub-operations txs move an asset flagged as scam
ContainsScam(txs) ==
  \E k \in DOMAIN txs, i \in 1..Len(ViewerTokens) :
    isScam(i) /\ txs[k].to = ViewerTokens[i].contractAddress

\* C35: a preview with an asset flagged as scam is compiled, estimated and stored
\* only in a handlePreviewBundle call whose scam warning the user confirmed; a
\* call whose warning was declined compiles and estimates nothing and leaves the
\* preview, its display and the error as they were.
C35_ScamNeedsConfirmation ==
  /\ []((ppc \in {"compile", "cost", "store"} /\ selectedScamTokens # {}) => scamAnswer = "yes")
  /\ [][(bundlePreview' # bundlePreview /\ bundlePreview' # NoPreview
           /\ ContainsScam(bundlePreview'.transactions)) => scamAnswer = "yes"]_vars
  /\ [][scamAnswer' = "no" =>
          UNCHANGED <<compiler, estimator, estimateRequested, bundlePreview, showPreview,
                      viewError, ppc>>]_vars

\* a preview that moves the flagged NFT is shown, its warning was confirmed
C35_Witness ==
  /\ showPreview /\ bundlePreview # NoPreview /\ ContainsScam(bundlePreview.transactions)
  /\ scamAnswer = "yes" /\ ppc = "idle"

(* ---------------- C36: the preview handed to execute ---------------- *)
\* tx is the sub-operation compile makes for token t and destination dest
SubOpOf(tx, t, dest) ==
  IF t.type = "NATIVE" THEN tx.to = dest /\ tx.data = Prefix0x
  ELSE /\ tx.to = t.contractAddress
       /\ StartsWith(tx.data, IF t.type = "ERC20" THEN SelTransferChars
                              ELSE SelTransferFromChars)

\* C36: when handleExecuteBundle hands the stored preview to execute, its
\* sub-operations are those of the tokens selected and the destination typed at
\* that moment, one for each selected token and in their order.
C36_ExecutesCurrentSelection ==
  ppc = "execute" =>
    /\ Len(bundlePreview.transactions) = Len(selectedTokens)
    /\ \A k \in 1..Len(selectedTokens) :
         SubOpOf(bundlePreview.transactions[k], selectedTokens[k], destinationAddress)

(* ---------------- C37: the chain attached to a sequential transaction ---------------- *)
\* C37: every transaction the sequential path sends carries as chain (the
\* manager's currentChain) the chain of the id the execution targets, the one
\* ensureCorrectNetwork just found the wallet on, whatever that id is.
C37_SendsWithTargetChain ==
  \A k \in DOMAIN submitted :
    submitted[k].kind = "send" => submitted[k].args[1] = submitted[k].target

(* ---------------- C38: late inventory loads ---------------- *)
\* the list with every selected flag cleared
Unselected(list) == [i \in 1..Len(list) |-> [list[i] EXCEPT !.selected = FALSE]]

\* C38: once every handleCheckTokens call is over, the token list held is that of
\* the network now selected (or empty, when its load failed): a load of a network
\* selected earlier that ends late does not replace it.
C38_ListOfSelectedNetwork ==
  (\A l \in 1..Len(loads) : loads[l].phase = "done") =>
    Unselected(tokenList) \in {<<>>, analyzedTokens(InventoryOf(selectedNetwork))}

(* ---------------- C39: the frame of the selection handlers ---------------- *)
\* C39: handleTokenSelection(tokenId, flag) sets the selected flag of exactly the
\* tokens whose generated id is tokenId, handleSelectAll(flag) that of every token;
\* the other flags, every other field of every token, the length and order of the
\* list and the rest of the viewer's state stay as they were.
C39_SelectionFrame ==
  [][clicked' # NoClick =>
       /\ UNCHANGED <<offListing, selectedNetwork, loads, tokenCache, isLoading, loadError>>
       /\ Len(tokenList') = Len(tokenList)
       /\ \A i \in 1..Len(tokenList) :
            LET was == tokenList[i]
                now == tokenList'[i]
                hit == \/ clicked'.op = "all"
                       \/ clicked'.tokenId =
                            (IF was.type = "NATIVE"
                             THEN <<"n", "a", "t", "i", "v", "e", "-", selectedNetwork>>
                             ELSE IF was.type = "ERC721" /\ was.tokenId # <<>>
                             THEN was.contractAddress \o <<"-">> \o was.tokenId
                             ELSE was.contractAddress)
            IN /\ DOMAIN now = DOMAIN was
               /\ \A f \in DOMAIN was \ {"selected"} : now[f] = was[f]
               /\ now.selected = IF hit THEN clicked'.selected ELSE was.selected]_vars

\* the NFT was just ticked while the token before it stays ticked and the native
\* token unticked
C39_Witness ==
  /\ Len(tokenList) = 3 /\ clicked.op = "token" /\ clicked.selected
  /\ clicked.tokenId = generateTokenId(tokenList[3], selectedNetwork)
  /\ tokenList[3].selected /\ tokenList[2].selected /\ ~tokenList[1].selected

====
